---- MODULE Spec2Model ----
(***************************************************************************)
(* Export pipeline of slacker (internal/usecase/export_service.go) run     *)
(* against the Slack client (internal/api/slack_client.go).                *)
(*                                                                         *)
(* One run of ExportService.ExportChannel is a sequential process.  It is  *)
(* cut into actions at its blocking points: every remote call and every    *)
(* time.Sleep is the start of one action, and the action runs the code up  *)
(* to the next blocking point.                                             *)
(*                                                                         *)
(* Go strings on which the code computes (timestamps, paths) are sequences *)
(* of one-character strings, so that the byte-wise comparison, the parse   *)
(* and the suffix test are computed, not assumed.                          *)
(***************************************************************************)
EXTENDS Integers, Sequences, FiniteSets, TLC

VARIABLES
    remote,       \* the kinds of message the remote channel holds
    options,      \* models.ExportOptions given to ExportChannel
    hasCallback,  \* progressCallback != nil
    pc,           \* position of the run inside ExportChannel
    now,          \* monotonic clock, time.Since(startTime)
    channel,      \* result of fetchChannelInfo (Nil before it)
    cursor,       \* fetchAllMessages: cursor of the next page request
    allMessages,  \* fetchAllMessages: accumulator (unsorted)
    messages,     \* ExportChannel: the sorted top-level list
    threaded,     \* fetchThreadReplies: threadedMessages, as indexes into messages
    ti,           \* fetchThreadReplies: loop index i (0-based)
    progress,     \* the models.ExportProgress value of the run
    calls,        \* history: remote calls issued, with their answers
    snapshots,    \* history: snapshots delivered to progressCallback
    sleeps,       \* history: position in calls at which each time.Sleep ran
    files,        \* file system: paths that exist, with their state
    result,       \* (*models.ExportResult, error) returned; returned is FALSE while running
    \* the functions of the export that compute on data, called on their own
    tree,         \* messages given to fetchUserInfo, calculateStatistics, filterMessagesByDate
    directory,    \* answer of GetUsers: [err, users]
    users,        \* fetchUserInfo: [returned, err, users]
    runs,         \* history: calculateStatistics calls, [zone, stats] each
    dateArgs,     \* runExport: the --from and --to strings
    dateRange,    \* runExport: [returned, err, from, to] after date parsing
    filterResult, \* filterMessagesByDate: [returned, messages]
    dpc,          \* position of the caller of these functions
    \* the export command (cmd/export.go)
    flags,        \* the command line: channel, channel id, format, compression, switches
    cmd,          \* runExport: its position, the channel it resolved, the error it returned
    document,     \* the export document: [built, messages, rendering]
    \* the terminal UI (internal/ui/app.go)
    app,          \* the App model: state, selectedChannel
    running,      \* the tea.Cmd functions that run and have not delivered their message
    \* a list component of the UI (ChannelListModel or MessageViewModel)
    list,         \* the component: its kind, items, cursor, viewport, scrollTop
    selecting,    \* the commands returned for "enter" that have not delivered their message
    selected      \* history: the last channelSelectedMsg, or the panic of its command

pipelineVars == <<remote, options, hasCallback, pc, now, channel, cursor, allMessages,
                  messages, threaded, ti, progress, calls, snapshots, sleeps, files,
                  result>>

dataVars == <<tree, directory, users, runs, dateArgs, dateRange, filterResult, dpc>>

cmdVars == <<flags, cmd, document>>

listVars == <<list, selecting, selected>>

uiVars == <<app, running, listVars>>

vars == <<remote, options, hasCallback, pc, now, channel, cursor, allMessages, messages,
          threaded, ti, progress, calls, snapshots, sleeps, files, result,
          tree, directory, users, runs, dateArgs, dateRange, filterResult, dpc,
          flags, cmd, document, app, running, list, selecting, selected>>

Nil == "nil"

----------------------------------------------------------------------------
(* Bounds of the model *)

MaxPages == 2       \* history pages the remote serves before its cursor ends
MaxMessages == 3    \* messages the remote channel holds, replies included
MaxTreeLen == 2     \* top-level messages of a tree given to the functions over data
MaxRuns == 2        \* calls of calculateStatistics on one tree
MaxRunning == 3     \* commands of the terminal UI that run at the same time
MaxItems == 3       \* channels or messages a list component is given
MaxHeight == 4      \* height a list component is given by SetSize
MaxCursor == 4      \* distance from 0 up to which the cursor of a list is followed
MaxSelecting == 1   \* commands returned for "enter" that run at the same time

----------------------------------------------------------------------------
(* Go strings *)

Digits == <<"0", "1", "2", "3", "4", "5", "6", "7", "8", "9">>

IsDigit(c) == \E i \in 1..10 : Digits[i] = c

DigitVal(c) == (CHOOSE i \in 1..10 : Digits[i] = c) - 1

\* byte value of a character of the model's alphabet (ASCII)
CharCode(c) ==
    IF IsDigit(c) THEN 48 + DigitVal(c)
    ELSE IF c = "." THEN 46
    ELSE IF c = "/" THEN 47
    ELSE 120

RECURSIVE StrLess(_, _)
\* Go's a < b on strings: byte-wise lexicographic order
StrLess(a, b) ==
    IF b = <<>> THEN FALSE
    ELSE IF a = <<>> THEN TRUE
    ELSE IF Head(a) = Head(b) THEN StrLess(Tail(a), Tail(b))
    ELSE CharCode(Head(a)) < CharCode(Head(b))

----------------------------------------------------------------------------
(* time.Time and models.ParseSlackTimestamp *)

\* a time.Time: the zero Time (year 1), or a Unix time as whole seconds and
\* the microseconds within the second
ZeroTime == [zero |-> TRUE, sec |-> 0, us |-> 0]

\* time.Unix(sec, nsec), at microsecond resolution
Unix(sec, us) == [zero |-> FALSE, sec |-> sec, us |-> us]

UnixMicro(n) == Unix(n \div 1000000, n % 1000000)

\* t.Before(u)
Before(t, u) ==
    IF t.zero THEN ~u.zero
    ELSE IF u.zero THEN FALSE
    ELSE t.sec < u.sec \/ (t.sec = u.sec /\ t.us < u.us)

\* a variant of After that also holds of equal times
AfterOrEqual(t, u) == ~Before(t, u)

\* t.After(u)
After(t, u) == Before(u, t)

RECURSIVE DecimalValue(_)
\* value of a sequence of decimal digits
DecimalValue(ds) ==
    IF ds = <<>> THEN 0
    ELSE 10 * DecimalValue(SubSeq(ds, 1, Len(ds) - 1)) + DigitVal(ds[Len(ds)])

\* the decimal literals strconv.ParseFloat accepts over the model's alphabet:
\* digits with at most one ".", and at least one digit
IsFloat(ts) ==
    /\ \A i \in 1..Len(ts) : IsDigit(ts[i]) \/ ts[i] = "."
    /\ Cardinality({i \in 1..Len(ts) : ts[i] = "."}) <= 1
    /\ \E i \in 1..Len(ts) : IsDigit(ts[i])

DotPos(ts) ==
    IF \E i \in 1..Len(ts) : ts[i] = "."
    THEN CHOOSE i \in 1..Len(ts) : ts[i] = "."
    ELSE Len(ts) + 1

\* the first six fractional digits, as microseconds
FracMicros(fs) ==
    DecimalValue([i \in 1..6 |-> IF i <= Len(fs) THEN fs[i] ELSE "0"])

\* models.ParseSlackTimestamp: (time.Time, error).  The float64 result is
\* taken at microsecond resolution; float64 rounding is monotone, and it
\* moves a value by less than a microsecond at the magnitudes of the model.
ParseSlackTimestamp(ts) ==
    IF ts = <<>> THEN [err |-> FALSE, time |-> ZeroTime]
    ELSE IF ~IsFloat(ts) THEN [err |-> TRUE, time |-> ZeroTime]
    ELSE [err |-> FALSE,
          time |-> Unix(DecimalValue(SubSeq(ts, 1, DotPos(ts) - 1)),
                        FracMicros(SubSeq(ts, DotPos(ts) + 1, Len(ts))))]

\* numeric order of two parseable timestamps
TsNumLeq(a, b) ==
    ~Before(ParseSlackTimestamp(b).time, ParseSlackTimestamp(a).time)

----------------------------------------------------------------------------
(* Input universe *)

ChannelIDs == {"C1", "C2"}

\* the answers of conversations.list the run may get: lists of channel ids
ChannelLists == {<<>>, <<"C1">>, <<"C2">>, <<"C2", "C1">>}

\* Slack timestamps: "9.5" and "10.1" differ in the width of the integer part
Timestamps == {<<"9", ".", "5">>, <<"1", "0", ".", "1">>}

EmptyStr == <<>>

\* models.Message, the fields the pipeline reads
Message(ts, tts, rc) ==
    [Timestamp |-> ts, ThreadTS |-> tts, ReplyCount |-> rc, Thread |-> <<>>]

\* top-level messages as SlackClient.convertSlackMessage builds them (Thread
\* is never set by the client): two thread parents and a reply posted to
\* the channel (thread_ts of its parent, no reply_count)
MessagePool ==
    {Message(<<"9", ".", "5">>, <<"9", ".", "5">>, 1),
     Message(<<"1", "0", ".", "1">>, <<"1", "0", ".", "1">>, 1),
     Message(<<"9", ".", "5">>, <<"1", "0", ".", "1">>, 0)}

\* a channel with one thread parent and one message whose reply_count is set
\* without a thread_ts
SmallPool ==
    {Message(<<"9", ".", "5">>, <<"9", ".", "5">>, 1),
     Message(<<"1", "0", ".", "1">>, EmptyStr, 1)}

\* messages of a thread as conversations.replies returns them
ReplyPool == {Message(ts, EmptyStr, 0) : ts \in Timestamps}

\* all sequences over S of length at most n
SeqsUpTo(S, n) == UNION {[1..k -> S] : k \in 0..n}

\* the opaque cursor the remote returns with its k-th page when more pages
\* follow: a different one per page; the empty cursor ends the history
CursorAfter(k) == [i \in 1..k |-> "x"]

NoDate == [nil |-> TRUE, time |-> ZeroTime]

DateAt(n) == [nil |-> FALSE, time |-> UnixMicro(n)]

\* models.ExportOptions, the fields the service reads
ExportOptions(threads, dateFrom, dateTo, path, compression) ==
    [ChannelID |-> "C1", IncludeThreads |-> threads, IncludeFiles |-> TRUE,
     IncludeReactions |-> TRUE, DateFrom |-> dateFrom, DateTo |-> dateTo,
     OutputFile |-> path, Format |-> "json-pretty", Compression |-> compression]

PathA == <<"a">>

PathDirAGz == <<"d", "/", "a", ".", "g", "z">>

\* the callers of ExportChannel, as pairs of the options and of whether a
\* progress callback is given: with and without threads; no date range, a
\* range open to the right and one open to the left (both cut at 10 s, so
\* each keeps one of the two timestamps); the paths "a" and "d/a.gz"; every
\* compression mode, the empty one included; and one caller with
\* progressCallback == nil
CallerPool ==
    {<<ExportOptions(TRUE, NoDate, NoDate, PathA, "none"), TRUE>>,
     <<ExportOptions(FALSE, NoDate, NoDate, PathA, "gzip"), TRUE>>,
     <<ExportOptions(TRUE, DateAt(10000000), NoDate, PathDirAGz, "gzip"), TRUE>>,
     <<ExportOptions(TRUE, NoDate, DateAt(10000000), PathDirAGz, "zip"), TRUE>>,
     <<ExportOptions(TRUE, NoDate, DateAt(10000000), PathA, ""), FALSE>>}

\* the callers with no date range
ThreadCallerPool == {c \in CallerPool : c[1].DateFrom.nil /\ c[1].DateTo.nil}

\* outcomes of the file system calls of generateOutputFile
IOOutcomes == {"ok", "mkdir_fail", "create_fail", "write_fail", "stat_fail"}

----------------------------------------------------------------------------
(* Pure functions of the export service *)

RECURSIVE filterMessagesByDate(_, _, _)
\* ExportService.filterMessagesByDate
filterMessagesByDate(msgs, dateFrom, dateTo) ==
    IF dateFrom.nil /\ dateTo.nil THEN msgs
    ELSE IF msgs = <<>> THEN <<>>
    ELSE LET msg == Head(msgs)
             parsed == ParseSlackTimestamp(msg.Timestamp)
             rest == filterMessagesByDate(Tail(msgs), dateFrom, dateTo)
         IN  IF parsed.err THEN rest
             ELSE IF ~dateFrom.nil /\ Before(parsed.time, dateFrom.time) THEN rest
             ELSE IF ~dateTo.nil /\ After(parsed.time, dateTo.time) THEN rest
             ELSE <<msg>> \o rest

\* the less function of both sort.Slice calls: Timestamp strings compared
TimestampLess(a, b) == StrLess(a.Timestamp, b.Timestamp)

IndexPermutations(n) ==
    {f \in [1..n -> 1..n] : \A i, j \in 1..n : f[i] = f[j] => i = j}

\* sort.Slice(msgs, TimestampLess).  sort.Slice is not stable, so every
\* ordering of msgs in which no later element is less than an earlier one
\* is a possible outcome.
SortByTimestamp(msgs) ==
    {[i \in 1..Len(msgs) |-> msgs[f[i]]] : f \in
        {g \in IndexPermutations(Len(msgs)) :
            \A i, j \in 1..Len(msgs) :
                i < j => ~TimestampLess(msgs[g[j]], msgs[g[i]])}}

\* a variant of HasThread that tests the thread timestamp alone
HasThreadByThreadTS(msg) == msg.ThreadTS # EmptyStr

\* fetchThreadReplies: a message has a thread to resolve
HasThread(msg) == msg.ReplyCount > 0 /\ msg.ThreadTS # EmptyStr

RECURSIVE ThreadedFrom(_, _)
\* fetchThreadReplies: threadedMessages, as the indexes i >= k of msgs
ThreadedFrom(msgs, k) ==
    IF k > Len(msgs) THEN <<>>
    ELSE (IF HasThread(msgs[k]) THEN <<k>> ELSE <<>>) \o ThreadedFrom(msgs, k + 1)

ThreadedMessages(msgs) == ThreadedFrom(msgs, 1)

\* fetchThreadReplies: drop the parent when it is the first reply
RemoveParent(replies, msg) ==
    IF Len(replies) > 0 /\ replies[1].Timestamp = msg.Timestamp
    THEN Tail(replies)
    ELSE replies

\* SlackClient.GetThreadReplies: the first message of the API's answer is
\* skipped as the parent
GetThreadReplies(apiMessages) ==
    IF Len(apiMessages) > 1 THEN SubSeq(apiMessages, 2, Len(apiMessages)) ELSE <<>>

\* strings.HasSuffix
HasSuffix(str, suffix) ==
    /\ Len(str) >= Len(suffix)
    /\ SubSeq(str, Len(str) - Len(suffix) + 1, Len(str)) = suffix

GzSuffix == <<".", "g", "z">>

ZipSuffix == <<".", "z", "i", "p">>

\* generateOutputFile: outputDir != ".", filepath.Dir of a relative path
HasOutputDir(path) == \E i \in 1..Len(path) : path[i] = "/"

\* a variant of TargetPath that appends the suffix to every path
TargetPathAppending(path, compression) ==
    IF compression = "gzip" THEN path \o GzSuffix
    ELSE IF compression = "zip" THEN path \o ZipSuffix
    ELSE path

\* generateOutputFile: the path handed to the writer
TargetPath(path, compression) ==
    IF compression = "gzip"
    THEN (IF HasSuffix(path, GzSuffix) THEN path ELSE path \o GzSuffix)
    ELSE IF compression = "zip"
    THEN (IF HasSuffix(path, ZipSuffix) THEN path ELSE path \o ZipSuffix)
    ELSE path

----------------------------------------------------------------------------
(* Progress reporting *)

\* progress.Progress in hundredths, as ExportChannel sets it per stage
ProgressInitializing == 0
ProgressChannelFetch == 10
ProgressMessageFetch == 20
ProgressThreadFetch == 60
ProgressUserFetch == 80
ProgressDataProcessing == 90
ProgressFileGeneration == 95
ProgressComplete == 100

\* a variant of StageFraction with the checkpoints of the last two working
\* stages exchanged
StageFractionSwapped(stage) ==
    CASE stage = "initializing" -> ProgressInitializing
      [] stage = "channel_fetch" -> ProgressChannelFetch
      [] stage = "message_fetch" -> ProgressMessageFetch
      [] stage = "thread_fetch" -> ProgressThreadFetch
      [] stage = "user_fetch" -> ProgressUserFetch
      [] stage = "data_processing" -> ProgressFileGeneration
      [] stage = "file_generation" -> ProgressDataProcessing
      [] stage = "complete" -> ProgressComplete

\* progress.Progress as ExportChannel sets it on entering a stage
StageFraction(stage) ==
    CASE stage = "initializing" -> ProgressInitializing
      [] stage = "channel_fetch" -> ProgressChannelFetch
      [] stage = "message_fetch" -> ProgressMessageFetch
      [] stage = "thread_fetch" -> ProgressThreadFetch
      [] stage = "user_fetch" -> ProgressUserFetch
      [] stage = "data_processing" -> ProgressDataProcessing
      [] stage = "file_generation" -> ProgressFileGeneration
      [] stage = "complete" -> ProgressComplete

\* the models.ExportProgress of ExportChannel, before the first callback
InitialProgress ==
    [Stage |-> "initializing", Progress |-> StageFraction("initializing"),
     ElapsedTime |-> 0, MessagesTotal |-> 0, ThreadsTotal |-> 0,
     ThreadsCurrent |-> 0]

\* if progressCallback != nil { progressCallback(progress) }
\* ps is the pair of the progress value (p) and the snapshots delivered (s)
Deliver(ps) ==
    IF hasCallback THEN [ps EXCEPT !.s = Append(ps.s, ps.p)] ELSE ps

\* a stage transition of ExportChannel: Stage, Progress and ElapsedTime are
\* set, then the callback is invoked
Transition(ps, stage, elapsed) ==
    Deliver([ps EXCEPT !.p.Stage = stage, !.p.Progress = StageFraction(stage),
                       !.p.ElapsedTime = elapsed])

\* ExportChannel, Step 4 up to the GetUsers call
EnterUserFetch(ps, elapsed) ==
    Transition(ps, "user_fetch", elapsed)

\* a variant of AfterMessages that enters the thread stage whatever
\* options.IncludeThreads says
AfterMessagesIgnoringFlag(ps, msgs, elapsed) ==
    LET ps1 == Transition(ps, "thread_fetch", elapsed)
        th == ThreadedMessages(msgs)
        ps2 == [ps1 EXCEPT !.p.ThreadsTotal = Len(th)]
    IN  IF th = <<>>
        THEN [ps |-> EnterUserFetch(ps2, elapsed), pc |-> "user_fetch", th |-> th]
        ELSE [ps |-> ps2, pc |-> "thread_fetch", th |-> th]

\* ExportChannel from the return of fetchAllMessages to the next remote
\* call: Step 3 with the head of fetchThreadReplies if threads are
\* included, Step 4 if they are not or if no message has a thread
AfterMessages(ps, msgs, elapsed) ==
    IF options.IncludeThreads
    THEN LET ps1 == Transition(ps, "thread_fetch", elapsed)
             th == ThreadedMessages(msgs)
             ps2 == [ps1 EXCEPT !.p.ThreadsTotal = Len(th)]
         IN  IF th = <<>>
             THEN [ps |-> EnterUserFetch(ps2, elapsed), pc |-> "user_fetch", th |-> th]
             ELSE [ps |-> ps2, pc |-> "thread_fetch", th |-> th]
    ELSE [ps |-> EnterUserFetch(ps, elapsed), pc |-> "user_fetch", th |-> <<>>]

----------------------------------------------------------------------------
(* The run *)

\* fetchUserInfo has not returned
NoUsers == [returned |-> FALSE, err |-> FALSE, users |-> <<>>]

\* runExport has not parsed the dates
NoDateRange == [returned |-> FALSE, err |-> FALSE, from |-> NoDate, to |-> NoDate]

\* filterMessagesByDate has not returned
NoFiltered == [returned |-> FALSE, messages |-> <<>>]

NoResult ==
    [returned |-> FALSE, Success |-> FALSE, err |-> FALSE, Error |-> "", Cause |-> "",
     OutputFile |-> <<>>]

\* return &models.ExportResult{Success: false, Error: ...}, err
Failure(what) ==
    [returned |-> TRUE, Success |-> FALSE, err |-> TRUE, Error |-> what, Cause |-> "",
     OutputFile |-> <<>>]

\* return &models.ExportResult{Success: true, OutputFile: ...}, nil
Success(path) ==
    [returned |-> TRUE, Success |-> TRUE, err |-> FALSE, Error |-> "", Cause |-> "",
     OutputFile |-> path]

\* an entry of the call history
Call(op, arg, err, ret, next) ==
    [op |-> op, arg |-> arg, err |-> err, ret |-> ret, next |-> next]

RECURSIVE CountOp(_, _)
\* number of calls of op in a call history
CountOp(cs, op) ==
    IF cs = <<>> THEN 0
    ELSE (IF Head(cs).op = op THEN 1 ELSE 0) + CountOp(Tail(cs), op)

RECURSIVE Served(_)
\* number of messages and replies the remote has served in a call history
Served(cs) ==
    IF cs = <<>> THEN 0
    ELSE (IF Head(cs).op \in {"GetChannelHistory", "GetThreadReplies"}
          THEN Len(Head(cs).ret) ELSE 0)
         + Served(Tail(cs))

\* no function is called on its own
DataIdle ==
    /\ tree = <<>>
    /\ directory = [err |-> FALSE, users |-> <<>>]
    /\ users = NoUsers
    /\ runs = <<>>
    /\ dateArgs = [from |-> EmptyStr, to |-> EmptyStr]
    /\ dateRange = NoDateRange
    /\ filterResult = NoFiltered
    /\ dpc = "idle"

\* the command line of a process that is not the export command
NoFlags ==
    [channel |-> "", channelID |-> "", format |-> "", compress |-> "", switches |-> {},
     changed |-> {}]

\* runExport is not running
NoCmd == [pc |-> "idle", channelID |-> "", error |-> ""]

\* no export document has been built
NoDocument == [built |-> FALSE, messages |-> <<>>, rendering |-> ""]

\* the export command is not run
CmdIdle ==
    /\ flags = NoFlags
    /\ cmd = NoCmd
    /\ document = NoDocument

\* no channelSelectedMsg was delivered
NoSelected == [sent |-> FALSE, pressed |-> 0, channel |-> 0, panic |-> FALSE]

\* no list component is followed
ListIdle ==
    /\ list = [kind |-> "none", items |-> <<>>, cursor |-> 0, viewport |-> 0, scrollTop |-> 0]
    /\ selecting = <<>>
    /\ selected = NoSelected

\* the terminal UI is not run
UiIdle ==
    /\ app = [state |-> "StateQuit", selectedChannel |-> FALSE, hasChannels |-> FALSE]
    /\ running = <<>>
    /\ ListIdle

\* the state when ExportChannel is called by one of callers on a channel
\* holding messages of the kinds in pool
InitWith(callers, pool) ==
    /\ remote = pool
    /\ \E caller \in callers :
         /\ options = caller[1]
         /\ hasCallback = caller[2]
    /\ pc = "start"
    /\ now = 0
    /\ channel = Nil
    /\ cursor = EmptyStr
    /\ allMessages = <<>>
    /\ messages = <<>>
    /\ threaded = <<>>
    /\ ti = 0
    /\ progress = InitialProgress
    /\ calls = <<>>
    /\ snapshots = <<>>
    /\ sleeps = <<>>
    /\ files = {}
    /\ result = NoResult
    /\ DataIdle
    /\ CmdIdle
    /\ UiIdle

\* every caller, on a small channel
Init == InitWith(CallerPool, SmallPool)

\* callers without a date range, on a channel with every kind of message
InitThreads == InitWith(ThreadCallerPool, MessagePool)

\* ExportChannel, lines 41-62: startTime, the "initializing" snapshot and
\* the transition to channel_fetch
Start ==
    /\ pc = "start"
    /\ LET ps0 == Deliver([p |-> InitialProgress, s |-> snapshots])
           ps1 == Transition(ps0, "channel_fetch", now)
       IN  /\ progress' = ps1.p
           /\ snapshots' = ps1.s
    /\ pc' = "channel_fetch"
    /\ UNCHANGED <<remote, options, hasCallback, now, channel, cursor, allMessages,
                   messages, threaded, ti, calls, sleeps, files, result>>
    /\ UNCHANGED <<dataVars, cmdVars, uiVars>>

\* a variant of ChannelFound that accepts any non-empty channel list
ChannelFoundFirst(channels, id) == Len(channels) > 0

\* fetchChannelInfo: the loop that looks the channel id up
ChannelFound(channels, id) == \E i \in 1..Len(channels) : channels[i] = id

\* ExportChannel, lines 64-81, with fetchChannelInfo: GetChannels fails, or
\* returns a list in which the channel id is looked up
FetchChannelInfo ==
    /\ pc = "channel_fetch"
    /\ now' = now + 1
    /\ \E err \in BOOLEAN, channels \in ChannelLists :
         /\ err => channels = <<>>
         /\ calls' = Append(calls, Call("GetChannels", EmptyStr, err, channels, EmptyStr))
         /\ IF err \/ ~ChannelFound(channels, options.ChannelID)
            THEN /\ result' = Failure("Failed to fetch channel info")
                 /\ pc' = "done"
                 /\ UNCHANGED <<channel, progress, snapshots>>
            ELSE LET ps == Transition([p |-> progress, s |-> snapshots],
                                      "message_fetch", now')
                 IN  /\ channel' = options.ChannelID
                     /\ progress' = ps.p
                     /\ snapshots' = ps.s
                     /\ pc' = "message_fetch"
                     /\ UNCHANGED result
    /\ UNCHANGED <<remote, options, hasCallback, cursor, allMessages, messages,
                   threaded, ti, sleeps, files>>
    /\ UNCHANGED <<dataVars, cmdVars, uiVars>>

\* a variant of AdvanceCursor that keeps the cursor of the request
AdvanceCursorStale(cur, nextCursor) == cur

\* fetchAllMessages, line 246: the cursor of the next request
AdvanceCursor(cur, nextCursor) == nextCursor

\* a variant of MorePages that stops at a page the date range emptied
MorePagesInRange(filtered, nextCursor) == nextCursor # EmptyStr /\ filtered # <<>>

\* fetchAllMessages, lines 242-245: the loop goes on unless the page
\* returned the empty cursor; what the page held plays no part
MorePages(filtered, nextCursor) == nextCursor # EmptyStr

\* a variant of AfterPage in which the wait between two pages never ends
AfterPageBlocked(filtered) == "blocked"

\* a variant of AfterPage that sleeps only after a page that added messages
AfterPageSkippingEmpty(filtered) ==
    IF filtered = <<>> THEN "message_fetch" ELSE "page_sleep"

\* fetchAllMessages, lines 244-249: a page that returned a cursor is
\* followed by time.Sleep, whatever the page held
AfterPage(filtered) == "page_sleep"

\* fetchAllMessages, one iteration of the loop from GetChannelHistory on:
\* the page fails, or is filtered and appended; after the last page the list
\* is sorted and ExportChannel goes on to its next remote call
FetchPage ==
    /\ pc = "message_fetch"
    /\ now' = now + 1
    /\ \E err \in BOOLEAN,
          page \in SeqsUpTo(remote, MaxMessages - Served(calls)),
          nextCursor \in {EmptyStr, CursorAfter(CountOp(calls, "GetChannelHistory") + 1)} :
         /\ err => page = <<>> /\ nextCursor = EmptyStr
         /\ CountOp(calls, "GetChannelHistory") + 1 >= MaxPages => nextCursor = EmptyStr
         /\ calls' = Append(calls, Call("GetChannelHistory", cursor, err, page, nextCursor))
         /\ IF err
            THEN /\ result' = Failure("Failed to fetch messages")
                 /\ pc' = "done"
                 /\ allMessages' = <<>>
                 /\ UNCHANGED <<cursor, messages, threaded, progress, snapshots>>
            ELSE LET filtered == filterMessagesByDate(page, options.DateFrom, options.DateTo)
                     acc == allMessages \o filtered
                     ps == IF hasCallback
                           THEN Deliver([p |-> [progress EXCEPT !.MessagesTotal = Len(acc),
                                                                !.ElapsedTime = now'],
                                         s |-> snapshots])
                           ELSE [p |-> progress, s |-> snapshots]
                 IN  IF ~MorePages(filtered, nextCursor)
                     THEN \E sorted \in SortByTimestamp(acc) :
                            LET after == AfterMessages(ps, sorted, now')
                            IN  /\ allMessages' = sorted
                                /\ messages' = sorted
                                /\ threaded' = after.th
                                /\ progress' = after.ps.p
                                /\ snapshots' = after.ps.s
                                /\ pc' = after.pc
                                /\ UNCHANGED <<cursor, result>>
                     ELSE /\ allMessages' = acc
                          /\ cursor' = AdvanceCursor(cursor, nextCursor)
                          /\ progress' = ps.p
                          /\ snapshots' = ps.s
                          /\ pc' = AfterPage(filtered)
                          /\ UNCHANGED <<messages, threaded, result>>
    /\ UNCHANGED <<remote, options, hasCallback, channel, ti, sleeps, files>>
    /\ UNCHANGED <<dataVars, cmdVars, uiVars>>

\* fetchAllMessages, line 249: time.Sleep between two page requests
PageSleep ==
    /\ pc = "page_sleep"
    /\ now' = now + 1
    /\ sleeps' = Append(sleeps, Len(calls))
    /\ pc' = "message_fetch"
    /\ UNCHANGED <<remote, options, hasCallback, channel, cursor, allMessages, messages,
                   threaded, ti, progress, calls, snapshots, files, result>>
    /\ UNCHANGED <<dataVars, cmdVars, uiVars>>

\* a variant of AfterThread that leaves the loop one message early
AfterThreadOffByOne(ps, i, elapsed) ==
    IF i + 2 < Len(threaded)
    THEN [ps |-> ps, pc |-> "thread_fetch"]
    ELSE [ps |-> EnterUserFetch(ps, elapsed), pc |-> "user_fetch"]

\* fetchThreadReplies: where the loop goes after iteration i (0-based), and
\* ExportChannel's Step 4 once the loop has ended
AfterThread(ps, i, elapsed) ==
    IF i + 1 < Len(threaded)
    THEN [ps |-> ps, pc |-> "thread_fetch"]
    ELSE [ps |-> EnterUserFetch(ps, elapsed), pc |-> "user_fetch"]

\* a variant of OnThreadError that ends the loop at the first failed call
OnThreadErrorBreak(ps, i, elapsed) ==
    [ps |-> EnterUserFetch(ps, elapsed), pc |-> "user_fetch"]

\* fetchThreadReplies, lines 276-280: a failed GetThreadReplies is reported
\* as a warning and the loop continues with the next threaded message
OnThreadError(ps, i, elapsed) == AfterThread(ps, i, elapsed)

\* a variant of AttachReplies that also sets the reply count of the parent
AttachRepliesCounting(msgs, idx, replies) ==
    [msgs EXCEPT ![idx].Thread = replies, ![idx].ReplyCount = Len(replies)]

\* fetchThreadReplies, line 292: msg.Thread = replies, through the pointer
\* into the slice of the caller
AttachReplies(msgs, idx, replies) == [msgs EXCEPT ![idx].Thread = replies]

\* fetchThreadReplies, one iteration of the loop from GetThreadReplies on:
\* a failed call is skipped with a warning (continue); otherwise the parent
\* is removed, the replies are sorted and attached, and progress is reported
FetchThread ==
    /\ pc = "thread_fetch"
    /\ now' = now + 1
    /\ LET idx == threaded[ti + 1]
           msg == messages[idx]
       IN  \E err \in BOOLEAN,
              first \in ReplyPool,
              rest \in SeqsUpTo(ReplyPool, MaxMessages - Served(calls)),
              empty \in BOOLEAN :
             LET apiMessages == IF err \/ empty THEN <<>> ELSE <<first>> \o rest
                 replies == GetThreadReplies(apiMessages)
             IN  /\ err \/ empty => rest = <<>> /\ first = CHOOSE r \in ReplyPool : TRUE
                 /\ err => ~empty
                 /\ calls' = Append(calls, Call("GetThreadReplies", msg.ThreadTS, err,
                                                replies, EmptyStr))
                 /\ IF err
                    THEN LET after == OnThreadError([p |-> progress, s |-> snapshots], ti, now')
                         IN  /\ ti' = ti + 1
                             /\ pc' = after.pc
                             /\ progress' = after.ps.p
                             /\ snapshots' = after.ps.s
                             /\ UNCHANGED messages
                    ELSE \E sorted \in SortByTimestamp(RemoveParent(replies, msg)) :
                            LET ps == IF hasCallback
                                      THEN Deliver([p |-> [progress EXCEPT
                                                              !.ThreadsCurrent = ti + 1,
                                                              !.ElapsedTime = now'],
                                                    s |-> snapshots])
                                      ELSE [p |-> progress, s |-> snapshots]
                            IN  /\ messages' = AttachReplies(messages, idx, sorted)
                                /\ progress' = ps.p
                                /\ snapshots' = ps.s
                                /\ pc' = "thread_sleep"
                                /\ UNCHANGED ti
    /\ UNCHANGED <<remote, options, hasCallback, channel, cursor, allMessages, threaded,
                   sleeps, files, result>>
    /\ UNCHANGED <<dataVars, cmdVars, uiVars>>

\* fetchThreadReplies, line 303: time.Sleep after a resolved thread, then
\* the next iteration or the return to ExportChannel
ThreadSleep ==
    /\ pc = "thread_sleep"
    /\ now' = now + 1
    /\ sleeps' = Append(sleeps, Len(calls))
    /\ LET after == AfterThread([p |-> progress, s |-> snapshots], ti, now')
       IN  /\ ti' = ti + 1
           /\ pc' = after.pc
           /\ progress' = after.ps.p
           /\ snapshots' = after.ps.s
    /\ UNCHANGED <<remote, options, hasCallback, channel, cursor, allMessages, messages,
                   threaded, calls, files, result>>
    /\ UNCHANGED <<dataVars, cmdVars, uiVars>>

\* ExportChannel, lines 124-154, with fetchUserInfo and processExportData:
\* GetUsers fails, or the run passes data_processing and reaches
\* file_generation
FetchUserInfo ==
    /\ pc = "user_fetch"
    /\ now' = now + 1
    /\ \E err \in BOOLEAN :
         /\ calls' = Append(calls, Call("GetUsers", EmptyStr, err, <<>>, EmptyStr))
         /\ IF err
            THEN /\ result' = Failure("Failed to fetch user info")
                 /\ pc' = "done"
                 /\ UNCHANGED <<progress, snapshots>>
            ELSE LET ps1 == Transition([p |-> progress, s |-> snapshots],
                                       "data_processing", now')
                     ps2 == Transition(ps1, "file_generation", now')
                 IN  /\ progress' = ps2.p
                     /\ snapshots' = ps2.s
                     /\ pc' = "file_generation"
                     /\ UNCHANGED result
    /\ UNCHANGED <<remote, options, hasCallback, channel, cursor, allMessages, messages,
                   threaded, ti, sleeps, files>>
    /\ UNCHANGED <<dataVars, cmdVars, uiVars>>

\* the file a writer leaves at path: complete, or cut short by a failed write
File(path, complete) == [path |-> path, complete |-> complete]

\* a variant of writeZipFile that leaves a file and reports success
writeZipFileSilently(filename) ==
    [err |-> FALSE, written |-> {File(filename, TRUE)}, path |-> filename, cause |-> ""]

\* ExportService.writeZipFile: not implemented, an error and no file
writeZipFile(filename) ==
    [err |-> TRUE, written |-> {}, path |-> EmptyStr,
     cause |-> "zip compression not yet implemented"]

\* generateOutputFile with writeFile, writeGzipFile and writeZipFile: what
\* the file system holds afterwards, and whether an error is returned
OutputOutcome(path, compression, io) ==
    LET target == TargetPath(path, compression)
    IN  IF HasOutputDir(path) /\ io = "mkdir_fail"
        THEN [err |-> TRUE, written |-> {}, path |-> EmptyStr,
              cause |-> "failed to create output directory"]
        ELSE IF compression = "zip"
        THEN writeZipFile(target)
        ELSE IF io = "create_fail"
        THEN [err |-> TRUE, written |-> {}, path |-> EmptyStr,
              cause |-> "failed to create file"]
        ELSE IF io = "write_fail"
        THEN [err |-> TRUE, written |-> {File(target, FALSE)}, path |-> EmptyStr,
              cause |-> "failed to write file"]
        ELSE IF io = "stat_fail"
        THEN [err |-> TRUE, written |-> {File(target, TRUE)}, path |-> EmptyStr,
              cause |-> "failed to get file info"]
        ELSE [err |-> FALSE, written |-> {File(target, TRUE)}, path |-> target,
              cause |-> ""]

\* ExportChannel, lines 156-194: the output file is generated; on success
\* the "complete" snapshot is delivered and the result returned
GenerateOutputFile ==
    /\ pc = "file_generation"
    /\ now' = now + 1
    /\ \E io \in IOOutcomes :
         /\ io = "mkdir_fail" => HasOutputDir(options.OutputFile)
         /\ options.Compression = "zip" => io \in {"ok", "mkdir_fail"}
         /\ LET out == OutputOutcome(options.OutputFile, options.Compression, io)
            IN  /\ files' = files \cup out.written
                /\ IF out.err
                   THEN /\ result' = [Failure("Failed to generate output file")
                                           EXCEPT !.Cause = out.cause]
                        /\ UNCHANGED <<progress, snapshots>>
                   ELSE LET ps == Transition([p |-> progress, s |-> snapshots],
                                             "complete", now')
                        IN  /\ progress' = ps.p
                            /\ snapshots' = ps.s
                            /\ result' = Success(out.path)
    /\ pc' = "done"
    /\ UNCHANGED <<remote, options, hasCallback, channel, cursor, allMessages, messages,
                   threaded, ti, calls, sleeps>>
    /\ UNCHANGED <<dataVars, cmdVars, uiVars>>

Next ==
    \/ Start
    \/ FetchChannelInfo
    \/ FetchPage
    \/ PageSleep
    \/ FetchThread
    \/ ThreadSleep
    \/ FetchUserInfo
    \/ GenerateOutputFile

Spec == Init /\ [][Next]_vars

\* ExportChannel is sequential code: as long as the remote calls, the
\* sleeps and the file system calls return, its next step is taken
SpecLive == Init /\ [][Next]_vars /\ WF_vars(Next)

SpecThreads == InitThreads /\ [][Next]_vars

----------------------------------------------------------------------------
(* Calendar of the time package *)

SecondsPerDay == 86400

\* the civil date <<year, month, day>> of a day counted from 1970-01-01
CivilFromDays(days) ==
    LET z == days + 719468
        era == z \div 146097
        doe == z - era * 146097
        yoe == (doe - doe \div 1460 + doe \div 36524 - doe \div 146096) \div 365
        doy == doe - (365 * yoe + yoe \div 4 - yoe \div 100)
        mp == (5 * doy + 2) \div 153
        d == doy - (153 * mp + 2) \div 5 + 1
        m == IF mp < 10 THEN mp + 3 ELSE mp - 9
    IN  <<yoe + era * 400 + (IF m <= 2 THEN 1 ELSE 0), m, d>>

\* the day, counted from 1970-01-01, of a civil date
DaysFromCivil(year, month, day) ==
    LET y == IF month <= 2 THEN year - 1 ELSE year
        era == y \div 400
        yoe == y - era * 400
        doy == (153 * (IF month > 2 THEN month - 3 ELSE month + 9) + 2) \div 5 + day - 1
        doe == yoe * 365 + yoe \div 4 - yoe \div 100 + doy
    IN  era * 146097 + doe - 719468

\* t.Format("2006-01-02") of a Time whose location is at offset seconds east
\* of UTC, as <<year, month, day>>; the zero Time is in UTC
FormatDate(t, offset) ==
    IF t.zero THEN <<1, 1, 1>>
    ELSE CivilFromDays((t.sec + offset) \div SecondsPerDay)

\* the UTC calendar day of a Time
UTCDate(t) == FormatDate(t, 0)

\* time.Parse("2006-01-02", str): four digits, "-", two digits, "-", two
\* digits of a date that exists; the Time is midnight UTC of that date
ParseDay(str) ==
    LET shaped == /\ Len(str) = 10
                  /\ str[5] = "-" /\ str[8] = "-"
                  /\ \A i \in {1, 2, 3, 4, 6, 7, 9, 10} : IsDigit(str[i])
        y == DecimalValue(SubSeq(str, 1, 4))
        m == DecimalValue(SubSeq(str, 6, 7))
        d == DecimalValue(SubSeq(str, 9, 10))
    IN  IF shaped /\ m \in 1..12 /\ d >= 1
           /\ CivilFromDays(DaysFromCivil(y, m, d)) = <<y, m, d>>
        THEN [err |-> FALSE, time |-> Unix(DaysFromCivil(y, m, d) * SecondsPerDay, 0)]
        ELSE [err |-> TRUE, time |-> ZeroTime]

----------------------------------------------------------------------------
(* Messages and users as the functions over data read them *)

\* models.Reaction; Users is the list of the users who reacted
Reaction(name, count, reactors) == [Name |-> name, Count |-> count, Users |-> reactors]

\* models.Message, the fields fetchUserInfo, calculateStatistics and
\* filterMessagesByDate read; attachments and files are lists of that length
Node(user, ts, reactions, nAttachments, nFiles, thread) ==
    [User |-> user, Timestamp |-> ts, Reactions |-> reactions,
     Attachments |-> [i \in 1..nAttachments |-> "attachment"],
     Files |-> [i \in 1..nFiles |-> "file"], Thread |-> thread]

\* models.User, the fields fetchUserInfo sets
User(id, name, realName, deleted) ==
    [ID |-> id, Name |-> name, RealName |-> realName, Deleted |-> deleted]

U1 == <<"U", "1">>

U2 == <<"U", "2">>

U3 == <<"U", "3">>

UserPrefix == <<"u", "s", "e", "r", "_">>

\* answers of GetUsers: an error, an empty directory, and a directory with
\* an entry without id, an id listed twice and a deleted user
DirectoryPool ==
    {[err |-> TRUE, users |-> <<>>],
     [err |-> FALSE, users |-> <<>>],
     [err |-> FALSE, users |-> <<User(EmptyStr, <<"n", "o">>, "Nobody", FALSE),
                                 User(U1, <<"a", "n", "n">>, "Ann", FALSE),
                                 User(U3, <<"c", "y">>, "Cy", TRUE),
                                 User(U1, <<"a", "n", "n", "e">>, "Anne", FALSE)>>]}

\* 2024-01-01 23:59:59.5 UTC
TsJan1Late == <<"1", "7", "0", "4", "1", "5", "3", "5", "9", "9", ".", "5">>

\* 2024-01-02 00:00:00 UTC
TsJan2Midnight == <<"1", "7", "0", "4", "1", "5", "3", "6", "0", "0">>

\* 2024-01-02 12:00:00 UTC
TsJan2Noon == <<"1", "7", "0", "4", "1", "9", "6", "8", "0", "0">>

\* 2024-01-03 00:00:00 UTC
TsJan3Midnight == <<"1", "7", "0", "4", "2", "4", "0", "0", "0", "0">>

\* a timestamp strconv.ParseFloat rejects
TsBad == <<"x">>

\* a reply with a reaction and a file
ReplyA == Node(U2, TsJan2Midnight, <<Reaction("b", 1, <<U1>>)>>, 0, 1, <<>>)

\* a reply without author
ReplyB == Node(EmptyStr, TsJan2Noon, <<>>, 1, 0, <<>>)

\* a reply that carries a reply of its own (models.Message.Thread is a list
\* of models.Message)
ReplyNested == Node(U3, TsJan2Noon, <<Reaction("a", 2, <<U1>>)>>, 0, 0, <<ReplyA>>)

\* top-level messages: one without thread whose reactions tie and whose
\* counts differ from the lengths of the user lists; one with two replies;
\* one whose reply has a reply; one without author, with a timestamp that
\* does not parse and two entries of one reaction name; and one with the
\* empty timestamp and eleven reaction names, two of them tied at the end
TopPool ==
    {Node(U1, TsJan1Late, <<Reaction("a", 1, <<U1, U2>>), Reaction("b", 1, <<>>)>>,
          1, 0, <<>>),
     Node(U1, TsJan2Midnight, <<Reaction("b", 2, <<U2>>)>>, 0, 2, <<ReplyA, ReplyB>>),
     Node(U2, TsJan3Midnight, <<>>, 0, 0, <<ReplyNested>>),
     Node(EmptyStr, TsBad, <<Reaction("a", 3, <<U1>>), Reaction("a", 1, <<U2>>)>>,
          0, 0, <<>>),
     Node(U3, EmptyStr,
        <<Reaction("e01", 12, <<>>),
          Reaction("e02", 11, <<>>),
          Reaction("e03", 10, <<>>),
          Reaction("e04", 9, <<>>),
          Reaction("e05", 8, <<>>),
          Reaction("e06", 7, <<>>),
          Reaction("e07", 6, <<>>),
          Reaction("e08", 5, <<>>),
          Reaction("e09", 4, <<>>),
          Reaction("e10", 3, <<>>),
          Reaction("e11", 3, <<>>)>>,
          2, 1, <<>>)}

\* the message trees given to the functions over data
Trees == SeqsUpTo(TopPool, MaxTreeLen)

\* zones of the process, in seconds east of UTC: UTC, UTC+1, UTC-5
Zones == {0, 3600, 0 - 18000}

----------------------------------------------------------------------------
(* fetchUserInfo *)

\* a Go map with no key
EmptyMap == [k \in {} |-> 0]

\* m[k] = v on a Go map
MapPut(m, k, v) == [x \in DOMAIN m \cup {k} |-> IF x = k THEN v ELSE m[x]]

\* a variant of collectUserIDs that does not visit the replies
collectTopLevelUserIDs(msgs) ==
    {msgs[i].User : i \in 1..Len(msgs)} \ {EmptyStr}

RECURSIVE collectUserIDs(_)
\* fetchUserInfo: the keys of userIDs after collectUserIDs(msgs)
collectUserIDs(msgs) ==
    IF msgs = <<>> THEN {}
    ELSE (IF Head(msgs).User # EmptyStr THEN {Head(msgs).User} ELSE {})
         \cup collectUserIDs(Head(msgs).Thread)
         \cup collectUserIDs(Tail(msgs))

RECURSIVE NeededUsers(_, _, _)
\* fetchUserInfo: the loop over allUsers that keeps the users of userIDs
NeededUsers(allUsers, userIDs, acc) ==
    IF allUsers = <<>> THEN acc
    ELSE NeededUsers(Tail(allUsers), userIDs,
                     IF Head(allUsers).ID \in userIDs
                     THEN MapPut(acc, Head(allUsers).ID, Head(allUsers))
                     ELSE acc)

\* a variant of PlaceholderUser that does not mark the user deleted
PlaceholderUserActive(userID) == User(userID, UserPrefix \o userID, "Unknown User", FALSE)

\* fetchUserInfo: the placeholder of a user the directory does not list
PlaceholderUser(userID) == User(userID, UserPrefix \o userID, "Unknown User", TRUE)

\* fetchUserInfo: the user map for a message list and an answer of GetUsers
UserMap(msgs, allUsers) ==
    LET userIDs == collectUserIDs(msgs)
        found == NeededUsers(allUsers, userIDs, EmptyMap)
    IN  [id \in userIDs |-> IF id \in DOMAIN found THEN found[id]
                            ELSE PlaceholderUser(id)]

\* ExportService.fetchUserInfo
FetchUsers ==
    /\ dpc = "users"
    /\ users' = IF directory.err
                THEN [returned |-> TRUE, err |-> TRUE, users |-> EmptyMap]
                ELSE [returned |-> TRUE, err |-> FALSE,
                      users |-> UserMap(tree, directory.users)]
    /\ dpc' = IF directory.err THEN "done" ELSE "statistics"
    /\ UNCHANGED <<tree, directory, runs, dateArgs, dateRange, filterResult>>
    /\ UNCHANGED <<pipelineVars, cmdVars, uiVars>>

----------------------------------------------------------------------------
(* calculateStatistics *)

\* maxReactions
MaxTopReactions == 10

\* v++ on an entry of a Go map of counters
MapInc(m, k) == MapPut(m, k, IF k \in DOMAIN m THEN m[k] + 1 ELSE 1)

\* v += n on an entry of a Go map of counters
MapAdd(m, k, n) == MapPut(m, k, IF k \in DOMAIN m THEN m[k] + n ELSE n)

\* models.ExportStatistics as calculateStatistics creates it
EmptyStatistics ==
    [TotalMessages |-> 0, TotalThreads |-> 0, TotalReplies |-> 0, TotalUsers |-> 0,
     TotalAttachments |-> 0, TotalFiles |-> 0, TotalReactions |-> 0,
     MessagesByUser |-> EmptyMap, MessagesByDate |-> EmptyMap, TopReactions |-> <<>>]

RECURSIVE SumOfUserLists(_)
\* a variant of SumOfCounts that adds the lengths of the user lists
SumOfUserLists(reactions) ==
    IF reactions = <<>> THEN 0
    ELSE Len(Head(reactions).Users) + SumOfUserLists(Tail(reactions))

RECURSIVE SumOfCounts(_)
\* calculateStatistics: the loop that adds reaction.Count of each reaction
SumOfCounts(reactions) ==
    IF reactions = <<>> THEN 0
    ELSE Head(reactions).Count + SumOfCounts(Tail(reactions))

\* a variant of ThreadIncrement that counts every reply as a thread
ThreadIncrementPerReply(msg) == Len(msg.Thread)

\* calculateStatistics: what the thread of a message adds to TotalThreads
ThreadIncrement(msg) == IF Len(msg.Thread) > 0 THEN 1 ELSE 0

\* a variant of CountMessage that counts the author without testing that
\* the id is not empty
CountMessageAnyAuthor(stats, msg, offset) ==
    LET parsed == ParseSlackTimestamp(msg.Timestamp)
    IN  [stats EXCEPT
            !.TotalMessages = @ + 1,
            !.MessagesByUser = MapInc(@, msg.User),
            !.MessagesByDate = IF ~parsed.err
                               THEN MapInc(@, FormatDate(parsed.time, offset))
                               ELSE @,
            !.TotalAttachments = @ + Len(msg.Attachments),
            !.TotalFiles = @ + Len(msg.Files),
            !.TotalReactions = @ + SumOfCounts(msg.Reactions),
            !.TotalThreads = @ + ThreadIncrement(msg),
            !.TotalReplies = @ + Len(msg.Thread)]

\* calculateStatistics: the counters of one message, its thread apart; the
\* Time of the timestamp is in the zone of the process
CountMessage(stats, msg, offset) ==
    LET parsed == ParseSlackTimestamp(msg.Timestamp)
    IN  [stats EXCEPT
            !.TotalMessages = @ + 1,
            !.MessagesByUser = IF msg.User # EmptyStr THEN MapInc(@, msg.User) ELSE @,
            !.MessagesByDate = IF ~parsed.err
                               THEN MapInc(@, FormatDate(parsed.time, offset))
                               ELSE @,
            !.TotalAttachments = @ + Len(msg.Attachments),
            !.TotalFiles = @ + Len(msg.Files),
            !.TotalReactions = @ + SumOfCounts(msg.Reactions),
            !.TotalThreads = @ + ThreadIncrement(msg),
            !.TotalReplies = @ + Len(msg.Thread)]

RECURSIVE countTopLevelMessages(_, _, _)
\* a variant of countMessages that does not visit the replies
countTopLevelMessages(msgs, stats, offset) ==
    IF msgs = <<>> THEN stats
    ELSE countTopLevelMessages(Tail(msgs), CountMessage(stats, Head(msgs), offset), offset)

RECURSIVE countMessages(_, _, _)
\* calculateStatistics: countMessages(msgs) on the counters stats
countMessages(msgs, stats, offset) ==
    IF msgs = <<>> THEN stats
    ELSE LET counted == CountMessage(stats, Head(msgs), offset)
             withThread == IF Len(Head(msgs).Thread) > 0
                           THEN countMessages(Head(msgs).Thread, counted, offset)
                           ELSE counted
         IN  countMessages(Tail(msgs), withThread, offset)

RECURSIVE AddReactions(_, _)
\* calculateStatistics: reactionCounts[reaction.Name] += reaction.Count
AddReactions(reactions, counts) ==
    IF reactions = <<>> THEN counts
    ELSE AddReactions(Tail(reactions),
                      MapAdd(counts, Head(reactions).Name, Head(reactions).Count))

RECURSIVE collectReactions(_, _)
\* calculateStatistics: collectReactions(msgs) on the map reactionCounts
collectReactions(msgs, counts) ==
    IF msgs = <<>> THEN counts
    ELSE collectReactions(Tail(msgs),
             collectReactions(Head(msgs).Thread,
                              AddReactions(Head(msgs).Reactions, counts)))

\* a variant of ReactionLess that sorts by ascending count
ReactionLessAscending(a, b) == a.count < b.count

\* the less function of the sort of reactionPairs
ReactionLess(a, b) == a.count > b.count

RECURSIVE SortedPairs(_, _)
\* reactionPairs after the range over the map reactionCounts and the
\* sort.Slice: the range visits the keys in an order Go does not fix, and
\* sort.Slice is not stable, so every order of the names in which no later
\* pair is less than an earlier one is a possible outcome
SortedPairs(names, counts) ==
    IF names = {} THEN {<<>>}
    ELSE LET pair(n) == [name |-> n, count |-> counts[n]]
             firsts == {n \in names : \A o \in names : ~ReactionLess(pair(o), pair(n))}
         IN  UNION {{<<pair(n)>> \o rest : rest \in SortedPairs(names \ {n}, counts)} :
                    n \in firsts}

\* calculateStatistics: the first maxReactions pairs, as models.ReactionStat
TopOf(reactionPairs) ==
    LET maxReactions == IF Len(reactionPairs) < MaxTopReactions
                        THEN Len(reactionPairs) ELSE MaxTopReactions
    IN  [i \in 1..maxReactions |->
            [Name |-> reactionPairs[i].name, Count |-> reactionPairs[i].count]]

\* ExportService.calculateStatistics in a process whose zone is offset
\* seconds east of UTC: the statistics it can return
calculateStatistics(msgs, userMap, offset) ==
    LET counted == countMessages(msgs, EmptyStatistics, offset)
        reactionCounts == collectReactions(msgs, EmptyMap)
    IN  {[counted EXCEPT !.TotalUsers = Cardinality(DOMAIN userMap),
                         !.TopReactions = TopOf(reactionPairs)] :
            reactionPairs \in SortedPairs(DOMAIN reactionCounts, reactionCounts)}

----------------------------------------------------------------------------
(* The functions over data, called on their own *)

\* ExportChannel is not running
PipelineIdle ==
    /\ remote = {}
    /\ options = ExportOptions(FALSE, NoDate, NoDate, PathA, "none")
    /\ hasCallback = FALSE
    /\ pc = "idle"
    /\ now = 0
    /\ channel = Nil
    /\ cursor = EmptyStr
    /\ allMessages = <<>>
    /\ messages = <<>>
    /\ threaded = <<>>
    /\ ti = 0
    /\ progress = InitialProgress
    /\ calls = <<>>
    /\ snapshots = <<>>
    /\ sleeps = <<>>
    /\ files = {}
    /\ result = NoResult

\* fetchUserInfo and then calculateStatistics are called on a tree, with an
\* answer of GetUsers
InitData ==
    /\ PipelineIdle
    /\ tree \in Trees
    /\ directory \in DirectoryPool
    /\ users = NoUsers
    /\ runs = <<>>
    /\ dateArgs = [from |-> EmptyStr, to |-> EmptyStr]
    /\ dateRange = NoDateRange
    /\ filterResult = NoFiltered
    /\ dpc = "users"
    /\ CmdIdle
    /\ UiIdle

\* processExportData, the call of calculateStatistics, by a process in one
\* of the zones; the call is repeated on the same tree and user map
CalculateStatistics ==
    /\ dpc = "statistics"
    /\ Len(runs) < MaxRuns
    /\ \E offset \in Zones :
         \E stats \in calculateStatistics(tree, users.users, offset) :
            runs' = Append(runs, [zone |-> offset, stats |-> stats])
    /\ UNCHANGED <<tree, directory, users, dateArgs, dateRange, filterResult, dpc>>
    /\ UNCHANGED <<pipelineVars, cmdVars, uiVars>>

NextData ==
    \/ FetchUsers
    \/ CalculateStatistics

SpecData == InitData /\ [][NextData]_vars

----------------------------------------------------------------------------
(* The date range of the export command *)

\* values of the --from and --to flags: not given, two days, and a date
\* that does not exist
DateStrings ==
    {EmptyStr,
     <<"2", "0", "2", "4", "-", "0", "1", "-", "0", "2">>,
     <<"2", "0", "2", "4", "-", "0", "1", "-", "0", "3">>,
     <<"2", "0", "2", "4", "-", "0", "2", "-", "3", "0">>}

\* messages around the days of DateStrings, one with a timestamp that does
\* not parse and one with the empty timestamp
DatedPool ==
    {Node(U1, ts, <<>>, 0, 0, <<>>) :
        ts \in {TsJan1Late, TsJan2Midnight, TsJan2Noon, TsJan3Midnight, TsBad, EmptyStr}}

\* cmd.parseDate: the first format that parses wins.  "2006-01-02" is the
\* only format of ten characters; no string of DateStrings is longer
parseDate(dateStr) ==
    IF Len(dateStr) = 10 THEN ParseDay(dateStr)
    ELSE [err |-> TRUE, time |-> ZeroTime]

\* runExport, "Parse date filters": fromDate and toDate, or the error of
\* the first flag that does not parse
ParsedRange(from, to) ==
    LET f == parseDate(from)
        t == parseDate(to)
    IN  IF from # EmptyStr /\ f.err
        THEN [returned |-> TRUE, err |-> TRUE, from |-> NoDate, to |-> NoDate]
        ELSE IF to # EmptyStr /\ t.err
        THEN [returned |-> TRUE, err |-> TRUE, from |-> NoDate, to |-> NoDate]
        ELSE [returned |-> TRUE, err |-> FALSE,
              from |-> IF from # EmptyStr THEN [nil |-> FALSE, time |-> f.time] ELSE NoDate,
              to |-> IF to # EmptyStr THEN [nil |-> FALSE, time |-> t.time] ELSE NoDate]

\* the export command is given --from and --to, and the messages of a page
\* are filtered by the range
InitDates ==
    /\ PipelineIdle
    /\ tree \in SeqsUpTo(DatedPool, MaxTreeLen)
    /\ directory = [err |-> FALSE, users |-> <<>>]
    /\ users = NoUsers
    /\ runs = <<>>
    /\ dateArgs \in [from : DateStrings, to : DateStrings]
    /\ dateRange = NoDateRange
    /\ filterResult = NoFiltered
    /\ dpc = "dates"
    /\ CmdIdle
    /\ UiIdle

\* runExport, "Parse date filters"
ParseDates ==
    /\ dpc = "dates"
    /\ dateRange' = ParsedRange(dateArgs.from, dateArgs.to)
    /\ dpc' = IF dateRange'.err THEN "done" ELSE "filter"
    /\ UNCHANGED <<tree, directory, users, runs, dateArgs, filterResult>>
    /\ UNCHANGED <<pipelineVars, cmdVars, uiVars>>

\* fetchAllMessages, the call of filterMessagesByDate on a page
FilterPage ==
    /\ dpc = "filter"
    /\ filterResult' = [returned |-> TRUE,
                        messages |-> filterMessagesByDate(tree, dateRange.from,
                                                          dateRange.to)]
    /\ dpc' = "done"
    /\ UNCHANGED <<tree, directory, users, runs, dateArgs, dateRange>>
    /\ UNCHANGED <<pipelineVars, cmdVars, uiVars>>

NextDates ==
    \/ ParseDates
    \/ FilterPage

SpecDates == InitDates /\ [][NextDates]_vars

----------------------------------------------------------------------------
(* The export command *)

\* the variables the switches of the command are bound to
BoolVars == {"exportThreads", "exportFiles", "exportReactions"}

\* init, lines 66-71: the BoolVar calls in their order, each with the name
\* of the flag, the variable it is bound to and the default it is given
BoolFlags ==
    <<[name |-> "threads", var |-> "exportThreads", value |-> TRUE],
      [name |-> "files", var |-> "exportFiles", value |-> TRUE],
      [name |-> "reactions", var |-> "exportReactions", value |-> TRUE],
      [name |-> "no-threads", var |-> "exportThreads", value |-> FALSE],
      [name |-> "no-files", var |-> "exportFiles", value |-> FALSE],
      [name |-> "no-reactions", var |-> "exportReactions", value |-> FALSE]>>

RECURSIVE Defined(_, _)
\* FlagSet.BoolVar stores the default in the variable when the flag is
\* defined (*p = value), so the last definition on a variable decides the
\* value the variable has when no flag is given
Defined(regs, bools) ==
    IF regs = <<>> THEN bools
    ELSE Defined(Tail(regs), [bools EXCEPT ![Head(regs).var] = Head(regs).value])

\* the variables once the command line is parsed: a switch that is given
\* (--threads, --no-files, ...) sets the variable it is bound to to true
ParsedBools(switches) ==
    LET defaults == Defined(BoolFlags, [v \in BoolVars |-> FALSE])
    IN  [v \in BoolVars |->
            IF \E i \in 1..Len(BoolFlags) :
                   BoolFlags[i].var = v /\ BoolFlags[i].name \in switches
            THEN TRUE
            ELSE defaults[v]]

\* runExport, "Handle negative flags"
NegativeFlags(switches, bools) ==
    [v \in BoolVars |->
        IF \/ v = "exportThreads" /\ "no-threads" \in switches
           \/ v = "exportFiles" /\ "no-files" \in switches
           \/ v = "exportReactions" /\ "no-reactions" \in switches
        THEN FALSE
        ELSE bools[v]]

\* runExport, "Validate format"
ValidFormat(format) == format \in {"json", "json-pretty", "json-compact"}

\* runExport, "Validate compression"
ValidCompression(compress) == compress = "" \/ compress \in {"none", "gzip"}

\* the names of the channels of the workspace
ChannelNames == [C1 |-> "general", C2 |-> "random"]

\* command lines: --channel general, --channel "" or no --channel, with
\* or without --channel-id; the valid formats, an unknown one and the
\* empty one; the compression modes; and some sets of switches.  changed
\* holds the string flags that were given (pflag's Flag.Changed).
CommandLines ==
    {f \in [channel : {"general", ""},
            channelID : {"", "C1"},
            format : {"json-pretty", "json", "json-compact", "xml", ""},
            compress : {"", "none", "gzip", "zip"},
            switches : {{}, {"no-threads"}, {"no-files"}, {"no-reactions"},
                        {"no-files", "no-reactions"}, {"threads", "files", "reactions"}},
            changed : SUBSET {"channel"}] :
        f.channel # "" => "channel" \in f.changed}

\* values of --from and --to given to the command
CommandDates ==
    {[from |-> EmptyStr, to |-> EmptyStr],
     [from |-> <<"2", "0", "2", "4", "-", "0", "1", "-", "0", "2">>,
      to |-> <<"2", "0", "2", "4", "-", "0", "1", "-", "0", "3">>],
     [from |-> <<"2", "0", "2", "4", "-", "0", "2", "-", "3", "0">>, to |-> EmptyStr],
     [from |-> EmptyStr, to |-> <<"2", "0", "2", "4", "-", "0", "2", "-", "3", "0">>]}

\* a message with files and a reaction whose replies carry a file, a
\* reaction and an attachment
MessageWithFiles ==
    Node(U1, TsJan2Midnight, <<Reaction("b", 2, <<U2>>)>>, 0, 2, <<ReplyA, ReplyB>>)

\* the messages ExportChannel has fetched when it processes them
FetchedTrees == {<<>>, <<MessageWithFiles>>}

RECURSIVE ConvertToExportMessage(_), ConvertMessages(_)
\* models.ConvertToExportMessage: attachments, files and reactions are
\* copied entry by entry and the thread becomes the replies
ConvertToExportMessage(msg) ==
    [ID |-> msg.Timestamp,
     User |-> msg.User,
     Timestamp |-> ParseSlackTimestamp(msg.Timestamp).time,
     Attachments |-> msg.Attachments,
     Files |-> msg.Files,
     Reactions |-> msg.Reactions,
     Replies |-> ConvertMessages(msg.Thread)]

\* processExportData, "Convert messages to export format"
ConvertMessages(msgs) ==
    IF msgs = <<>> THEN <<>>
    ELSE <<ConvertToExportMessage(Head(msgs))>> \o ConvertMessages(Tail(msgs))

\* generateOutputFile, "Marshal JSON based on format"
MarshalOf(format) ==
    CASE format = "json-pretty" -> "MarshalIndent"
      [] format = "json-compact" -> "Marshal"
      [] OTHER -> "MarshalIndent"

\* runExport returns an error
CmdError(what) == [cmd EXCEPT !.pc = "done", !.error = what]

\* the export command is started with a command line
InitCmd ==
    /\ PipelineIdle
    /\ tree \in FetchedTrees
    /\ directory = [err |-> FALSE, users |-> <<>>]
    /\ users = NoUsers
    /\ runs = <<>>
    /\ dateArgs \in CommandDates
    /\ dateRange = NoDateRange
    /\ filterResult = NoFiltered
    /\ dpc = "idle"
    /\ flags \in CommandLines
    /\ cmd = [pc |-> "flags", channelID |-> "", error |-> ""]
    /\ document = NoDocument
    /\ UiIdle

\* init, line 81: MarkFlagRequired("channel"); before it calls runExport
\* the command fails when a required flag was not given
ValidateRequiredFlags ==
    /\ cmd.pc = "flags"
    /\ IF "channel" \in flags.changed
       THEN cmd' = [cmd EXCEPT !.pc = "start"]
       ELSE cmd' = CmdError("required flag(s) \"channel\" not set")
    /\ UNCHANGED <<pipelineVars, dataVars, flags, document, uiVars>>

\* runExport, lines 92-110: one of --channel and --channel-id must be
\* given; with --channel-id the id is taken as given; without it
\* GetChannelByName asks the remote for the channel list
ResolveChannel ==
    /\ cmd.pc = "start"
    /\ IF flags.channel = "" /\ flags.channelID = ""
       THEN /\ cmd' = CmdError("either --channel or --channel-id must be specified")
            /\ UNCHANGED calls
       ELSE IF flags.channelID # ""
       THEN /\ cmd' = [cmd EXCEPT !.pc = "validate", !.channelID = flags.channelID]
            /\ UNCHANGED calls
       ELSE \E err \in BOOLEAN, channels \in ChannelLists :
              /\ err => channels = <<>>
              /\ calls' = Append(calls, Call("GetChannels", EmptyStr, err, channels,
                                             EmptyStr))
              /\ IF \E i \in 1..Len(channels) : ChannelNames[channels[i]] = flags.channel
                 THEN LET i == CHOOSE j \in 1..Len(channels) :
                                   ChannelNames[channels[j]] = flags.channel
                      IN  cmd' = [cmd EXCEPT !.pc = "validate", !.channelID = channels[i]]
                 ELSE cmd' = CmdError("failed to find channel")
    /\ UNCHANGED <<remote, options, hasCallback, pc, now, channel, cursor, allMessages,
                   messages, threaded, ti, progress, snapshots, sleeps, files, result>>
    /\ UNCHANGED <<dataVars, flags, document, uiVars>>

\* runExport, lines 112-180: the dates are parsed, the negative switches
\* applied, format and compression validated and the options built
BuildOptions ==
    /\ cmd.pc = "validate"
    /\ LET range == ParsedRange(dateArgs.from, dateArgs.to)
           bools == NegativeFlags(flags.switches, ParsedBools(flags.switches))
       IN  /\ dateRange' = range
           /\ IF range.err
              THEN cmd' = CmdError("invalid date") /\ UNCHANGED options
              ELSE IF ~ValidFormat(flags.format)
              THEN cmd' = CmdError("invalid format") /\ UNCHANGED options
              ELSE IF ~ValidCompression(flags.compress)
              THEN cmd' = CmdError("invalid compression") /\ UNCHANGED options
              ELSE /\ options' = [ChannelID |-> cmd.channelID,
                                  IncludeThreads |-> bools["exportThreads"],
                                  IncludeFiles |-> bools["exportFiles"],
                                  IncludeReactions |-> bools["exportReactions"],
                                  DateFrom |-> range.from,
                                  DateTo |-> range.to,
                                  OutputFile |-> PathA,
                                  Format |-> flags.format,
                                  Compression |-> flags.compress]
                   /\ cmd' = [cmd EXCEPT !.pc = "export"]
    /\ UNCHANGED <<remote, hasCallback, pc, now, channel, cursor, allMessages, messages,
                   threaded, ti, progress, calls, snapshots, sleeps, files, result>>
    /\ UNCHANGED <<tree, directory, users, runs, dateArgs, filterResult, dpc>>
    /\ UNCHANGED <<flags, document, uiVars>>

\* runExport, line 247: ExportChannel with the options; of the export, the
\* document processExportData builds from the fetched messages and the
\* marshalling generateOutputFile chooses
ExportDocument ==
    /\ cmd.pc = "export"
    /\ document' = [built |-> TRUE,
                    messages |-> ConvertMessages(tree),
                    rendering |-> MarshalOf(options.Format)]
    /\ cmd' = [cmd EXCEPT !.pc = "done"]
    /\ UNCHANGED <<pipelineVars, dataVars, flags, uiVars>>

NextCmd ==
    \/ ValidateRequiredFlags
    \/ ResolveChannel
    \/ BuildOptions
    \/ ExportDocument

SpecCmd == InitCmd /\ [][NextCmd]_vars

----------------------------------------------------------------------------
(* The terminal UI *)

\* The program of the UI library calls App.Update with one message at a
\* time; every tea.Cmd that Update returns runs on its own goroutine and
\* its result comes back as a message.  A key press is a message too.

\* the tea.Cmd is started
Started(c) == Append(running, c)

\* the i-th running command has returned
Returned(i) == [j \in 1..(Len(running) - 1) |-> IF j < i THEN running[j] ELSE running[j + 1]]

\* RunTUI: NewApp and App.Init, which starts loadChannels
InitUI ==
    /\ PipelineIdle
    /\ DataIdle
    /\ CmdIdle
    /\ app = [state |-> "StateLoading", selectedChannel |-> FALSE, hasChannels |-> FALSE]
    /\ running = <<"loadChannels">>
    /\ ListIdle

\* Update, tea.KeyMsg "ctrl+c" or "q"
PressQuit ==
    /\ app.state # "StateQuit"
    /\ app' = [app EXCEPT !.state = "StateQuit"]
    /\ UNCHANGED running
    /\ UNCHANGED <<pipelineVars, dataVars, cmdVars, listVars>>

\* Update, tea.KeyMsg "esc"
PressEsc ==
    /\ app.state = "StateMessageView"
    /\ app' = [app EXCEPT !.state = "StateChannelList", !.selectedChannel = FALSE]
    /\ UNCHANGED running
    /\ UNCHANGED <<pipelineVars, dataVars, cmdVars, listVars>>

\* Update, tea.KeyMsg "r": the channels or the messages are loaded again
PressRefresh ==
    /\ Len(running) < MaxRunning
    /\ \/ /\ app.state = "StateChannelList"
          /\ running' = Started("loadChannels")
       \/ /\ app.state = "StateMessageView" /\ app.selectedChannel
          /\ running' = Started("loadMessages")
    /\ UNCHANGED app
    /\ UNCHANGED <<pipelineVars, dataVars, cmdVars, listVars>>

\* Update, tea.KeyMsg "e": the export of the selected channel is started
PressExport ==
    /\ Len(running) < MaxRunning
    /\ app.selectedChannel
    /\ app.state \in {"StateChannelList", "StateMessageView"}
    /\ app' = [app EXCEPT !.state = "StateExporting"]
    /\ running' = Started("exportChannel")
    /\ UNCHANGED <<pipelineVars, dataVars, cmdVars, listVars>>

\* Update, tea.KeyMsg "enter", passed on to the channel list, which
\* returns the command that delivers channelSelectedMsg
PressEnter ==
    /\ Len(running) < MaxRunning
    /\ app.state = "StateChannelList" /\ app.hasChannels
    /\ running' = Started("selectChannel")
    /\ UNCHANGED app
    /\ UNCHANGED <<pipelineVars, dataVars, cmdVars, listVars>>

\* a running command returns and Update is called with its message:
\* channelSelectedMsg, channelsLoadedMsg, messagesLoadedMsg,
\* exportCompletedMsg or errorMsg
Update ==
    /\ app.state # "StateQuit"
    /\ \E i \in 1..Len(running), err \in BOOLEAN, any \in BOOLEAN :
         LET c == running[i]
         IN  IF c = "selectChannel"
             THEN /\ ~err /\ ~any
                  /\ app' = [app EXCEPT !.selectedChannel = TRUE]
                  /\ running' = Append(Returned(i), "loadMessages")
             ELSE /\ running' = Returned(i)
                  /\ IF err
                     THEN ~any /\ app' = [app EXCEPT !.state = "StateError"]
                     ELSE IF c = "loadChannels"
                     THEN app' = [app EXCEPT !.state = "StateChannelList",
                                             !.hasChannels = any]
                     ELSE IF c = "loadMessages"
                     THEN ~any /\ app' = [app EXCEPT !.state = "StateMessageView"]
                     ELSE ~any /\ app' = [app EXCEPT !.state = "StateChannelList"]
    /\ UNCHANGED <<pipelineVars, dataVars, cmdVars, listVars>>

NextUI ==
    \/ PressQuit
    \/ PressEsc
    \/ PressRefresh
    \/ PressExport
    \/ PressEnter
    \/ Update

SpecUI == InitUI /\ [][NextUI]_vars

----------------------------------------------------------------------------
(* The list components of the terminal UI *)

\* ChannelListModel and MessageViewModel hold the same fields and differ
\* in the keys they handle.  The items of a list are numbered from 1.

\* the lists SetChannels and SetMessages are given
ItemLists == {[i \in 1..n |-> i] : n \in 0..MaxItems}

\* the keys the components handle; "enter" is handled by ListEnter
ListKeys == {"up", "k", "down", "j", "home", "end", "pageup", "pagedown"}

\* adjustScroll of both components
adjustScroll(m) ==
    IF m.viewport <= 0 THEN m
    ELSE LET down == IF m.cursor >= m.scrollTop + m.viewport
                     THEN [m EXCEPT !.scrollTop = m.cursor - m.viewport + 1]
                     ELSE m
             up == IF down.cursor < down.scrollTop
                   THEN [down EXCEPT !.scrollTop = down.cursor]
                   ELSE down
         IN  IF up.scrollTop < 0 THEN [up EXCEPT !.scrollTop = 0] ELSE up

\* ChannelListModel.Update and MessageViewModel.Update on a tea.KeyMsg
\* other than "enter"; "pageup" and "pagedown" are keys of the message
\* view only
KeyUpdate(m, key) ==
    CASE key \in {"up", "k"} ->
           IF m.cursor > 0 THEN adjustScroll([m EXCEPT !.cursor = @ - 1]) ELSE m
      [] key \in {"down", "j"} ->
           IF m.cursor < Len(m.items) - 1
           THEN adjustScroll([m EXCEPT !.cursor = @ + 1])
           ELSE m
      [] key = "home" -> [m EXCEPT !.cursor = 0, !.scrollTop = 0]
      [] key = "end" -> adjustScroll([m EXCEPT !.cursor = Len(m.items) - 1])
      [] key = "pageup" /\ m.kind = "MessageViewModel" ->
           LET c == m.cursor - m.viewport
           IN  adjustScroll([m EXCEPT !.cursor = IF c < 0 THEN 0 ELSE c])
      [] key = "pagedown" /\ m.kind = "MessageViewModel" ->
           LET c == m.cursor + m.viewport
           IN  adjustScroll([m EXCEPT !.cursor = IF c >= Len(m.items)
                                                 THEN Len(m.items) - 1
                                                 ELSE c])
      [] OTHER -> m

\* NewChannelListModel or NewMessageViewModel
InitList ==
    /\ PipelineIdle
    /\ DataIdle
    /\ CmdIdle
    /\ app = [state |-> "StateQuit", selectedChannel |-> FALSE, hasChannels |-> FALSE]
    /\ running = <<>>
    /\ \E kind \in {"ChannelListModel", "MessageViewModel"} :
         list = [kind |-> kind, items |-> <<>>, cursor |-> 0, viewport |-> 0,
                 scrollTop |-> 0]
    /\ selecting = <<>>
    /\ selected = NoSelected

\* SetChannels, SetMessages
SetItems ==
    /\ ~selected.panic
    /\ \E items \in ItemLists :
         list' = [list EXCEPT !.items = items, !.cursor = 0, !.scrollTop = 0]
    /\ UNCHANGED <<selecting, selected>>
    /\ UNCHANGED <<pipelineVars, dataVars, cmdVars, app, running>>

\* SetSize
SetSize ==
    /\ ~selected.panic
    /\ \E height \in 1..MaxHeight : list' = [list EXCEPT !.viewport = height - 2]
    /\ UNCHANGED <<selecting, selected>>
    /\ UNCHANGED <<pipelineVars, dataVars, cmdVars, app, running>>

\* Update with a key that moves the cursor
ListKey ==
    /\ ~selected.panic
    /\ \E key \in ListKeys :
         /\ list' = KeyUpdate(list, key)
         /\ list'.cursor \in -MaxCursor..MaxCursor
    /\ UNCHANGED <<selecting, selected>>
    /\ UNCHANGED <<pipelineVars, dataVars, cmdVars, app, running>>

\* ChannelListModel.Update with "enter" or " ": the command that will
\* deliver channelSelectedMsg is returned; it holds the model (m), not
\* the channel.  pressed records the channel under the cursor now.
ListEnter ==
    /\ ~selected.panic
    /\ list.kind = "ChannelListModel"
    /\ Len(list.items) > 0 /\ list.cursor < Len(list.items)
    /\ Len(selecting) < MaxSelecting
    /\ selecting' = Append(selecting, [pressed |-> list.items[list.cursor + 1],
                                       seen |-> "none",
                                       channels |-> <<>>,
                                       cursor |-> 0])
    /\ UNCHANGED <<list, selected>>
    /\ UNCHANGED <<pipelineVars, dataVars, cmdVars, app, running>>

\* the command runs on its own goroutine and reads m.channels and
\* m.cursor, unsynchronised with Update and SetChannels: it reads one of
\* the two fields
SelectLoad ==
    /\ ~selected.panic
    /\ selecting # <<>> /\ Head(selecting).seen = "none"
    /\ \E field \in {"channels", "cursor"} :
         selecting' = <<[Head(selecting) EXCEPT !.seen = field,
                                                !.channels = list.items,
                                                !.cursor = list.cursor]>>
                      \o Tail(selecting)
    /\ UNCHANGED <<list, selected>>
    /\ UNCHANGED <<pipelineVars, dataVars, cmdVars, app, running>>

\* the command reads the other field and returns
\* channelSelectedMsg{channel: m.channels[m.cursor]}; an index outside
\* the slice is a run-time panic
SelectSend ==
    /\ ~selected.panic
    /\ selecting # <<>> /\ Head(selecting).seen # "none"
    /\ LET c == Head(selecting)
           channels == IF c.seen = "channels" THEN c.channels ELSE list.items
           cur == IF c.seen = "cursor" THEN c.cursor ELSE list.cursor
       IN  selected' = IF cur >= 0 /\ cur < Len(channels)
                       THEN [sent |-> TRUE, pressed |-> c.pressed,
                             channel |-> channels[cur + 1], panic |-> FALSE]
                       ELSE [sent |-> FALSE, pressed |-> c.pressed,
                             channel |-> 0, panic |-> TRUE]
    /\ selecting' = Tail(selecting)
    /\ UNCHANGED list
    /\ UNCHANGED <<pipelineVars, dataVars, cmdVars, app, running>>

NextList ==
    \/ SetItems
    \/ SetSize
    \/ ListKey
    \/ ListEnter
    \/ SelectLoad
    \/ SelectSend

SpecList == InitList /\ [][NextList]_vars

----------------------------------------------------------------------------
(* Vocabulary of the properties *)

RECURSIVE CallsOf(_, _)
\* the calls of op in a call history, in the order they were issued
CallsOf(cs, op) ==
    IF cs = <<>> THEN <<>>
    ELSE (IF Head(cs).op = op THEN <<Head(cs)>> ELSE <<>>) \o CallsOf(Tail(cs), op)

HistoryCalls == CallsOf(calls, "GetChannelHistory")

ThreadCalls == CallsOf(calls, "GetThreadReplies")

LastCall == calls[Len(calls)]

\* a remote call whose outcome is fatal for the run
IsFatalCall(c) ==
    \/ c.op = "GetChannels"
       /\ (c.err \/ \A i \in 1..Len(c.ret) : c.ret[i] # options.ChannelID)
    \/ c.op = "GetChannelHistory" /\ c.err
    \/ c.op = "GetUsers" /\ c.err

\* the top-level messages with reply-count > 0 and a thread timestamp
QualifyingIdx ==
    {k \in 1..Len(messages) :
        messages[k].ReplyCount > 0 /\ messages[k].ThreadTS # EmptyStr}

\* the n-th of them in the order of the top-level list
NthQualifying(n) ==
    CHOOSE k \in QualifyingIdx : Cardinality({j \in QualifyingIdx : j < k}) = n - 1

Occurrences(seq, x) == Cardinality({i \in 1..Len(seq) : seq[i] = x})

\* the two sequences hold the same elements, each as often
SameBag(a, b) ==
    /\ Len(a) = Len(b)
    /\ \A i \in 1..Len(a) : Occurrences(a, a[i]) = Occurrences(b, a[i])

\* the run has left the thread-resolution stage
PastThreads ==
    \/ pc \in {"user_fetch", "file_generation"}
    \/ pc = "done" /\ \E i \in 1..Len(calls) : calls[i].op = "GetUsers"

\* the last page of the history has been fetched
PaginationDone ==
    /\ HistoryCalls # <<>>
    /\ ~HistoryCalls[Len(HistoryCalls)].err
    /\ HistoryCalls[Len(HistoryCalls)].next = EmptyStr

----------------------------------------------------------------------------
(* Properties *)

\* C1: a fatal remote failure (GetChannels fails or does not list the
\* channel, GetChannelHistory fails on any page, GetUsers fails) is the last
\* remote call of the run; the run has returned an error with Success
\* false, no file is written, and after a failed page no message of an
\* earlier page is kept.
C1_FatalFailureAborts ==
    \A i \in 1..Len(calls) :
        IsFatalCall(calls[i]) =>
            /\ i = Len(calls)
            /\ pc = "done"
            /\ result.returned /\ result.err /\ ~result.Success
            /\ files = {}
            /\ calls[i].op = "GetChannelHistory" =>
                   messages = <<>> /\ allMessages = <<>>

\* C1: a later page fails after an earlier page has delivered messages
C1_Witness ==
    /\ pc = "done"
    /\ LastCall.op = "GetChannelHistory" /\ LastCall.err
    /\ \E i \in 1..Len(calls) :
           calls[i].op = "GetChannelHistory" /\ Len(calls[i].ret) > 0

\* C2: failed GetThreadReplies calls never fail the export: the run never
\* returns a thread error, and a run that failed has a fatal remote call or
\* a file error as its cause; once the thread stage is over every
\* qualifying message has had its call, a failed one has an empty reply
\* list and every other one has the returned replies attached (all of
\* them, or all but the first).
C2_ThreadFailureNotFatal ==
    /\ result.Error # "Failed to fetch thread replies"
    /\ result.returned /\ ~result.Success =>
           IsFatalCall(LastCall) \/ result.Error = "Failed to generate output file"
    /\ options.IncludeThreads /\ PastThreads =>
           /\ Len(ThreadCalls) = Cardinality(QualifyingIdx)
           /\ \A n \in 1..Len(ThreadCalls) :
                  LET thread == messages[NthQualifying(n)].Thread
                      ret == ThreadCalls[n].ret
                  IN  IF ThreadCalls[n].err
                      THEN thread = <<>>
                      ELSE \/ SameBag(thread, ret)
                           \/ ret # <<>> /\ SameBag(thread, Tail(ret))

\* C2: a successful run in which one thread fetch failed and a later one
\* attached replies
C2_Witness ==
    /\ pc = "done" /\ result.Success
    /\ \E n1, n2 \in 1..Len(ThreadCalls) :
           /\ n1 < n2
           /\ ThreadCalls[n1].err
           /\ ~ThreadCalls[n2].err
           /\ messages[NthQualifying(n2)].Thread # <<>>

\* C3: whenever ExportChannel has returned an error, no file exists at the
\* output path.
C3_NoFileOnError ==
    result.returned /\ result.err => files = {}

\* C4: the top-level list and every attached reply list are non-decreasing
\* by parsed timestamp.
C4_SortedByParsedTimestamp ==
    /\ \A i, j \in 1..Len(messages) :
           i < j => TsNumLeq(messages[i].Timestamp, messages[j].Timestamp)
    /\ \A k \in 1..Len(messages) :
           \A i, j \in 1..Len(messages[k].Thread) :
               i < j => TsNumLeq(messages[k].Thread[i].Timestamp,
                                 messages[k].Thread[j].Timestamp)

\* C5: no reply list holds an entry with the timestamp of its parent.
C5_NoParentEcho ==
    \A k \in 1..Len(messages) :
        \A i \in 1..Len(messages[k].Thread) :
            messages[k].Thread[i].Timestamp # messages[k].Timestamp

\* position of a remote operation in the order of the pipeline
CallRank(op) ==
    CASE op = "GetChannels" -> 1
      [] op = "GetChannelHistory" -> 2
      [] op = "GetThreadReplies" -> 3
      [] op = "GetUsers" -> 4

\* C6: the remote calls of a run are one GetChannels, then the
\* GetChannelHistory calls, then the GetThreadReplies calls, then one
\* GetUsers: no call of an earlier kind follows a call of a later kind,
\* GetChannels and GetUsers are issued at most once (exactly once in a
\* successful run), and GetUsers is issued only after the last history page
\* and after the thread call of every qualifying message (none if threads
\* are not included).
C6_CallOrder ==
    /\ calls # <<>> => calls[1].op = "GetChannels"
    /\ \A i, j \in 1..Len(calls) :
           i < j => CallRank(calls[i].op) <= CallRank(calls[j].op)
    /\ Len(CallsOf(calls, "GetChannels")) <= 1
    /\ Len(CallsOf(calls, "GetUsers")) <= 1
    /\ result.returned /\ result.Success =>
           /\ Len(CallsOf(calls, "GetChannels")) = 1
           /\ Len(CallsOf(calls, "GetUsers")) = 1
    /\ CallsOf(calls, "GetUsers") # <<>> =>
           /\ PaginationDone
           /\ Len(ThreadCalls) =
                  IF options.IncludeThreads THEN Cardinality(QualifyingIdx) ELSE 0

\* C6: a successful run with several history pages and several thread calls
C6_Witness ==
    /\ result.returned /\ result.Success
    /\ Len(HistoryCalls) >= 2
    /\ Len(ThreadCalls) >= 2

RECURSIVE WithoutRepeats(_)
\* a sequence with every run of equal consecutive elements cut to one
WithoutRepeats(seq) ==
    IF Len(seq) <= 1 THEN seq
    ELSE IF seq[1] = seq[2] THEN WithoutRepeats(Tail(seq))
    ELSE <<seq[1]>> \o WithoutRepeats(Tail(seq))

IsPrefix(a, b) == Len(a) <= Len(b) /\ SubSeq(b, 1, Len(a)) = a

DeliveredStages == [i \in 1..Len(snapshots) |-> snapshots[i].Stage]

\* the stage names of §4.6, in order
StageOrder(withThreads) ==
    <<"initializing", "channel_fetch", "message_fetch">>
    \o (IF withThreads THEN <<"thread_fetch">> ELSE <<>>)
    \o <<"user_fetch", "data_processing", "file_generation", "complete">>

\* C7: the stage names delivered to the callback, consecutive repeats cut,
\* are a prefix of the stage order, which holds thread_fetch iff
\* IncludeThreads; and "complete" is delivered only when the output file
\* has been written in full and the run has succeeded.
C7_StageSequence ==
    /\ IsPrefix(WithoutRepeats(DeliveredStages), StageOrder(options.IncludeThreads))
    /\ (\E i \in 1..Len(snapshots) : snapshots[i].Stage = "complete") =>
           /\ result.returned /\ result.Success
           /\ [path |-> result.OutputFile, complete |-> TRUE] \in files

\* C7: a run with threads delivers "complete" after repeated message_fetch
\* and thread_fetch snapshots
C7_Witness ==
    /\ options.IncludeThreads
    /\ snapshots # <<>> /\ snapshots[Len(snapshots)].Stage = "complete"
    /\ Cardinality({i \in 1..Len(snapshots) : snapshots[i].Stage = "message_fetch"}) >= 3
    /\ Cardinality({i \in 1..Len(snapshots) : snapshots[i].Stage = "thread_fetch"}) >= 2

\* C8: over the snapshots of a run, Progress lies in [0, 1] and never
\* decreases, ElapsedTime never decreases, and Progress is 1.0 only in a
\* "complete" snapshot (Progress is in hundredths).
C8_ProgressMonotone ==
    /\ \A i \in 1..Len(snapshots) :
           /\ snapshots[i].Progress >= 0 /\ snapshots[i].Progress <= 100
           /\ snapshots[i].Progress = 100 => snapshots[i].Stage = "complete"
    /\ \A i, j \in 1..Len(snapshots) :
           i < j => /\ snapshots[i].Progress <= snapshots[j].Progress
                    /\ snapshots[i].ElapsedTime <= snapshots[j].ElapsedTime

\* C8: a completed run with a per-page and a per-thread snapshot
C8_Witness ==
    /\ snapshots # <<>> /\ snapshots[Len(snapshots)].Progress = 100
    /\ \E i \in 1..Len(snapshots) :
           snapshots[i].Stage = "message_fetch" /\ snapshots[i].MessagesTotal > 0
    /\ \E i \in 1..Len(snapshots) :
           snapshots[i].Stage = "thread_fetch" /\ snapshots[i].ThreadsCurrent > 0

\* a message passes the date range of the run
InDateRange(msg) ==
    \/ options.DateFrom.nil /\ options.DateTo.nil
    \/ /\ ~ParseSlackTimestamp(msg.Timestamp).err
       /\ options.DateFrom.nil
          \/ ~Before(ParseSlackTimestamp(msg.Timestamp).time, options.DateFrom.time)
       /\ options.DateTo.nil
          \/ ~Before(options.DateTo.time, ParseSlackTimestamp(msg.Timestamp).time)

RECURSIVE KeptOfPages(_)
\* the messages of the fetched pages that pass the date range, page by page
KeptOfPages(hs) ==
    IF hs = <<>> THEN <<>>
    ELSE LET page == Head(hs).ret
             kept == {i \in 1..Len(page) : InDateRange(page[i])}
             nth(n) == CHOOSE i \in kept : Cardinality({j \in kept : j < i}) = n - 1
         IN  [n \in 1..Cardinality(kept) |-> page[nth(n)]] \o KeptOfPages(Tail(hs))

\* the top-level messages as they were fetched, without their reply lists
FetchedMessages == [i \in 1..Len(messages) |-> [messages[i] EXCEPT !.Thread = <<>>]]

\* C9: the first history request carries the empty cursor and every later
\* one the cursor the page before it returned; no page is requested after a
\* page that failed or returned the empty cursor; and once pagination is
\* over the top-level list holds exactly the messages of the fetched pages
\* that pass the date range, each as often as it was fetched.
C9_CursorPagination ==
    /\ HistoryCalls # <<>> => HistoryCalls[1].arg = EmptyStr
    /\ \A k \in 1..(Len(HistoryCalls) - 1) :
           /\ HistoryCalls[k + 1].arg = HistoryCalls[k].next
           /\ HistoryCalls[k].next # EmptyStr
           /\ ~HistoryCalls[k].err
    /\ PaginationDone => SameBag(FetchedMessages, KeptOfPages(HistoryCalls))
    /\ ~PaginationDone => messages = <<>>

\* C9: pagination over two pages has ended, and the date range has dropped
\* one fetched message and kept another
C9_Witness ==
    /\ PaginationDone
    /\ Len(HistoryCalls) >= 2
    /\ messages # <<>>
    /\ \E k \in 1..Len(HistoryCalls) :
           \E i \in 1..Len(HistoryCalls[k].ret) : ~InDateRange(HistoryCalls[k].ret[i])

\* C10: with IncludeThreads the GetThreadReplies calls are, in order, one
\* per qualifying top-level message (reply-count > 0 and a thread
\* timestamp), each with the ThreadTS of its message, and none for any other
\* message; every qualifying message has had its call when the thread stage
\* is over.  Without IncludeThreads there is no such call and every reply
\* list stays empty.
C10_ThreadCalls ==
    /\ Len(ThreadCalls) <= Cardinality(QualifyingIdx)
    /\ \A n \in 1..Len(ThreadCalls) :
           ThreadCalls[n].arg = messages[NthQualifying(n)].ThreadTS
    /\ options.IncludeThreads /\ PastThreads =>
           Len(ThreadCalls) = Cardinality(QualifyingIdx)
    /\ ~options.IncludeThreads =>
           /\ ThreadCalls = <<>>
           /\ \A k \in 1..Len(messages) : messages[k].Thread = <<>>

\* C10: the thread stage is over for a list of two thread parents with
\* different thread timestamps and a message that does not qualify
C10_Witness ==
    /\ options.IncludeThreads /\ PastThreads
    /\ Len(ThreadCalls) = 2
    /\ ThreadCalls[1].arg # ThreadCalls[2].arg
    /\ Cardinality(QualifyingIdx) < Len(messages)

RECURSIVE TreeNodes(_)
\* the nodes of a message tree in the order of the walk: a message, its
\* replies (and theirs), then the next message
TreeNodes(msgs) ==
    IF msgs = <<>> THEN <<>>
    ELSE <<Head(msgs)>> \o TreeNodes(Head(msgs).Thread) \o TreeNodes(Tail(msgs))

\* the non-empty author ids of the tree, replies at every depth included
Authors ==
    {TreeNodes(tree)[i].User : i \in 1..Len(TreeNodes(tree))} \ {EmptyStr}

\* the entries of the directory with a given id
DirectoryEntries(id) ==
    {directory.users[i] : i \in {j \in 1..Len(directory.users) : directory.users[j].ID = id}}

\* C11: the keys of the user map fetchUserInfo returns are exactly the
\* distinct non-empty author ids of the top-level messages and of their
\* replies: no other user of the directory, and no author missing.
C11_UserMapKeys ==
    users.returned /\ ~users.err => DOMAIN users.users = Authors

\* C11: the map is returned for a tree with a reply author who wrote no
\* top-level message, a message without author, and a directory that lists
\* a user who wrote nothing
C11_Witness ==
    /\ users.returned /\ ~users.err
    /\ \E id \in Authors : \A k \in 1..Len(tree) : tree[k].User # id
    /\ \E i \in 1..Len(TreeNodes(tree)) : TreeNodes(tree)[i].User = EmptyStr
    /\ \E i \in 1..Len(directory.users) :
           directory.users[i].ID # EmptyStr /\ directory.users[i].ID \notin Authors

\* C12: a referenced author id the directory does not list has a
\* placeholder (Deleted true, RealName "Unknown User", Name "user_" then the
\* id); a referenced id the directory lists has a record of the directory
\* with that id, unchanged.
C12_Placeholders ==
    users.returned /\ ~users.err =>
        \A id \in DOMAIN users.users :
            IF DirectoryEntries(id) = {}
            THEN /\ users.users[id].ID = id
                 /\ users.users[id].Deleted
                 /\ users.users[id].RealName = "Unknown User"
                 /\ users.users[id].Name = <<"u", "s", "e", "r", "_">> \o id
            ELSE users.users[id] \in DirectoryEntries(id)

\* C12: the map holds a placeholder next to a record taken from a directory
\* that lists a deleted user
C12_Witness ==
    /\ users.returned /\ ~users.err
    /\ \E id \in DOMAIN users.users : DirectoryEntries(id) = {}
    /\ \E id \in DOMAIN users.users : DirectoryEntries(id) # {}
    /\ \E i \in 1..Len(directory.users) : directory.users[i].Deleted

RECURSIVE SeqSum(_)
\* the sum of a sequence of numbers
SeqSum(ns) == IF ns = <<>> THEN 0 ELSE Head(ns) + SeqSum(Tail(ns))

\* the nodes of the tree the statistics are computed on
AllNodes == TreeNodes(tree)

\* the sizes of the reply lists of a sequence of nodes
ReplyListSizes(nodes) == [i \in 1..Len(nodes) |-> Len(nodes[i].Thread)]

\* the run that returned last; every run is the last one in the state its
\* return leads to
LastRun == runs[Len(runs)]

\* the message totals of the last run are those of the nodes
MessageTotalsOf(nodes) ==
    runs # <<>> =>
        /\ LastRun.stats.TotalMessages = Len(tree) + SeqSum(ReplyListSizes(nodes))
        /\ LastRun.stats.TotalReplies = SeqSum(ReplyListSizes(nodes))

\* C13: TotalMessages is the number of top-level messages plus the number
\* of replies over all threads, and TotalReplies is the sum of the sizes of
\* all reply lists.
C13_MessageTotals == MessageTotalsOf(AllNodes)

\* C13: statistics of a tree with two top-level messages, one with two
\* replies and one without any
C13_Witness ==
    /\ runs # <<>>
    /\ Len(tree) = 2
    /\ \E k \in 1..Len(tree) : Len(tree[k].Thread) = 2
    /\ \E k \in 1..Len(tree) : tree[k].Thread = <<>>

\* C14: two runs of calculateStatistics over the same tree and user map (by
\* processes in the same zone) return the same statistics, TopReactions
\* included.
C14_Deterministic ==
    \A q, r \in 1..Len(runs) :
        runs[q].zone = runs[r].zone => runs[q].stats = runs[r].stats

\* the reaction entries of all nodes, in the order of the walk
RECURSIVE ReactionEntries(_)
ReactionEntries(nodes) ==
    IF nodes = <<>> THEN <<>>
    ELSE Head(nodes).Reactions \o ReactionEntries(Tail(nodes))

AllReactions == ReactionEntries(AllNodes)

NamesOf(entries) == {entries[i].Name : i \in 1..Len(entries)}

ReactionNames == NamesOf(AllReactions)

\* position in the walk of the first entry of a reaction name
FirstEncounter(name) ==
    CHOOSE i \in 1..Len(AllReactions) :
        /\ AllReactions[i].Name = name
        /\ \A j \in 1..(i - 1) : AllReactions[j].Name # name

\* sum of the Count fields of the entries of a reaction name
AggregateOf(entries, name) ==
    SeqSum([i \in 1..Len(entries) |->
               IF entries[i].Name = name THEN entries[i].Count ELSE 0])

Aggregate(name) == AggregateOf(AllReactions, name)

TopNames(top) == {top[i].Name : i \in 1..Len(top)}

\* C15: names with equal aggregate count are listed in the order of their
\* first encounter in the walk, and a name cut from the list is not
\* encountered before a listed name of the same count.
C15_TieOrder ==
    \A r \in 1..Len(runs) :
        LET top == runs[r].stats.TopReactions
        IN  /\ \A i, j \in 1..Len(top) :
                   i < j /\ top[i].Count = top[j].Count =>
                       FirstEncounter(top[i].Name) < FirstEncounter(top[j].Name)
            /\ \A i \in 1..Len(top) : \A name \in ReactionNames \ TopNames(top) :
                   Aggregate(name) = top[i].Count =>
                       FirstEncounter(top[i].Name) < FirstEncounter(name)

\* the smaller of two numbers
Min(a, b) == IF a < b THEN a ELSE b

\* a list is the top list of the entries, whose names are given
TopListOf(top, entries, names) ==
    /\ Len(top) = Min(10, Cardinality(names))
    /\ \A i, j \in 1..Len(top) : top[i].Name = top[j].Name => i = j
    /\ \A i \in 1..Len(top) :
           top[i].Name \in names /\ top[i].Count = AggregateOf(entries, top[i].Name)
    /\ \A i \in 1..(Len(top) - 1) : top[i].Count >= top[i + 1].Count
    /\ Len(top) > 0 =>
           \A name \in names \ TopNames(top) :
               AggregateOf(entries, name) <= top[Len(top)].Count

\* C16: TopReactions has min(10, number of distinct names) entries; no name
\* twice; each Count is the sum of the Count fields of the entries of that
\* name over all nodes; the counts do not increase along the list; and no
\* name left out has a higher aggregate than a listed one.
C16_TopReactions ==
    runs # <<>> => TopListOf(LastRun.stats.TopReactions, AllReactions, ReactionNames)

\* C16: statistics of a tree with more than ten reaction names, one of them
\* on several nodes, and a tie at the cut
C16_Witness ==
    /\ runs # <<>>
    /\ Cardinality(ReactionNames) > 10
    /\ Len(runs[1].stats.TopReactions) = 10
    /\ \E name \in ReactionNames \ TopNames(runs[1].stats.TopReactions) :
           Aggregate(name) = runs[1].stats.TopReactions[10].Count
    /\ \E i, j \in 1..Len(AllReactions) :
           i # j /\ AllReactions[i].Name = AllReactions[j].Name

\* the reaction, attachment and file totals of the last run are those of
\* the nodes and of their reaction entries
ReactionTotalsOf(nodes, entries) ==
    runs # <<>> =>
        /\ LastRun.stats.TotalReactions =
               SeqSum([i \in 1..Len(entries) |-> entries[i].Count])
        /\ LastRun.stats.TotalAttachments =
               SeqSum([i \in 1..Len(nodes) |-> Len(nodes[i].Attachments)])
        /\ LastRun.stats.TotalFiles =
               SeqSum([i \in 1..Len(nodes) |-> Len(nodes[i].Files)])

\* C17: TotalReactions is the sum of the Count fields of all reaction
\* entries of all nodes (whatever the user lists hold), and
\* TotalAttachments and TotalFiles are the summed list lengths of all nodes.
C17_ReactionTotals == ReactionTotalsOf(AllNodes, AllReactions)

\* C17: statistics of a tree with reactions on a message and on a reply,
\* an entry whose Count is not the length of its user list, and attachments
\* and files
C17_Witness ==
    /\ runs # <<>>
    /\ \E i \in 1..Len(AllReactions) : AllReactions[i].Count # Len(AllReactions[i].Users)
    /\ \E k \in 1..Len(tree) :
           \E i \in 1..Len(tree[k].Thread) : tree[k].Thread[i].Reactions # <<>>
    /\ runs[1].stats.TotalAttachments > 0 /\ runs[1].stats.TotalFiles > 0

\* the nodes of a sequence whose reply list is not empty
WithReplies(nodes) == {i \in 1..Len(nodes) : nodes[i].Thread # <<>>}

\* the nodes, at any depth, whose reply list is not empty
NodesWithReplies == WithReplies(AllNodes)

\* the top-level messages whose reply list is not empty
TopLevelWithReplies == {k \in 1..Len(tree) : tree[k].Thread # <<>>}

\* no reply of the tree carries replies: the one level of the data model
OneLevel == \A k \in 1..Len(tree) : \A i \in 1..Len(tree[k].Thread) :
                tree[k].Thread[i].Thread = <<>>

\* C18, as stated: for every tree the walk accepts, TotalThreads is the
\* number of top-level messages whose reply list is not empty.
C18_ThreadsTopLevelOnly ==
    \A r \in 1..Len(runs) :
        runs[r].stats.TotalThreads = Cardinality(TopLevelWithReplies)

\* C18, amended: TotalThreads is the number of nodes, at any depth, whose
\* reply list is not empty; on a tree with one level of replies that is the
\* number of top-level messages whose reply list is not empty.
C18_ThreadsPerNode ==
    runs # <<>> =>
        /\ LastRun.stats.TotalThreads = Cardinality(NodesWithReplies)
        /\ OneLevel => LastRun.stats.TotalThreads = Cardinality(TopLevelWithReplies)

\* C18: statistics of a tree in which a reply carries a reply, next to a
\* top-level message with two plain replies
C18_Witness ==
    /\ runs # <<>>
    /\ ~OneLevel
    /\ Cardinality(NodesWithReplies) > Cardinality(TopLevelWithReplies)
    /\ \E k \in TopLevelWithReplies :
           /\ Len(tree[k].Thread) = 2
           /\ \A i \in 1..2 : tree[k].Thread[i].Thread = <<>>

\* the number of nodes with a parseable timestamp on a UTC calendar day
NodesOnUTCDay(day) ==
    Cardinality({i \in 1..Len(AllNodes) :
        /\ ~ParseSlackTimestamp(AllNodes[i].Timestamp).err
        /\ UTCDate(ParseSlackTimestamp(AllNodes[i].Timestamp).time) = day})

UTCDays ==
    {UTCDate(ParseSlackTimestamp(AllNodes[i].Timestamp).time) :
        i \in {j \in 1..Len(AllNodes) : ~ParseSlackTimestamp(AllNodes[j].Timestamp).err}}

\* C19: MessagesByDate counts every node with a parseable timestamp under
\* the UTC calendar day of the timestamp, whatever the zone of the process,
\* so that runs in different zones return the same map.
C19_UTCDay ==
    /\ \A r \in 1..Len(runs) :
           /\ DOMAIN runs[r].stats.MessagesByDate = UTCDays
           /\ \A day \in UTCDays : runs[r].stats.MessagesByDate[day] = NodesOnUTCDay(day)
    /\ \A q, r \in 1..Len(runs) :
           runs[q].stats.MessagesByDate = runs[r].stats.MessagesByDate

\* the messages of the tree with a parseable timestamp on a UTC day
RECURSIVE OnUTCDay(_, _)
OnUTCDay(msgs, day) ==
    IF msgs = <<>> THEN <<>>
    ELSE (IF /\ ~ParseSlackTimestamp(Head(msgs).Timestamp).err
             /\ UTCDate(ParseSlackTimestamp(Head(msgs).Timestamp).time) = day
          THEN <<Head(msgs)>> ELSE <<>>) \o OnUTCDay(Tail(msgs), day)

\* C20: with --from and --to the same calendar day D, the filter keeps the
\* messages timestamped at any instant of UTC day D and drops the messages
\* of every other UTC day.
C20_SingleDay ==
    /\ filterResult.returned
    /\ dateArgs.from = dateArgs.to
    /\ dateArgs.from # EmptyStr
    => filterResult.messages = OnUTCDay(tree, UTCDate(dateRange.from.time))

\* t is not later than u, on the time line that starts with the zero Time
TimeLeq(t, u) ==
    \/ t.zero
    \/ /\ ~u.zero
       /\ t.sec < u.sec \/ (t.sec = u.sec /\ t.us <= u.us)

\* a message lies in the closed range the command has parsed
InClosedRange(msg) ==
    LET parsed == ParseSlackTimestamp(msg.Timestamp)
    IN  \/ dateRange.from.nil /\ dateRange.to.nil
        \/ /\ ~parsed.err
           /\ dateRange.from.nil \/ TimeLeq(dateRange.from.time, parsed.time)
           /\ dateRange.to.nil \/ TimeLeq(parsed.time, dateRange.to.time)

RECURSIVE Retained(_)
\* the messages in the closed range, in their order
Retained(msgs) ==
    IF msgs = <<>> THEN <<>>
    ELSE (IF InClosedRange(Head(msgs)) THEN <<Head(msgs)>> ELSE <<>>)
         \o Retained(Tail(msgs))

\* C21: filterMessagesByDate returns, in their order, exactly the messages
\* whose parsed timestamp t has from <= t (or no from) and t <= to (or no
\* to); without bounds it returns every message, also one whose timestamp
\* does not parse; with a bound it drops the messages whose timestamp does
\* not parse.
C21_InclusiveRange ==
    filterResult.returned =>
        /\ filterResult.messages = Retained(tree)
        /\ dateRange.from.nil /\ dateRange.to.nil => filterResult.messages = tree
        /\ ~(dateRange.from.nil /\ dateRange.to.nil) =>
               \A i \in 1..Len(filterResult.messages) :
                   ~ParseSlackTimestamp(filterResult.messages[i].Timestamp).err

\* C21: a range with both bounds is applied to a message timestamped
\* exactly at the upper bound, which is kept, and to one whose timestamp
\* does not parse, which is dropped
C21_Witness ==
    /\ filterResult.returned
    /\ ~dateRange.from.nil /\ ~dateRange.to.nil
    /\ Len(tree) = 2 /\ Len(filterResult.messages) = 1
    /\ ParseSlackTimestamp(filterResult.messages[1].Timestamp).time = dateRange.to.time
    /\ \E i \in 1..2 : ParseSlackTimestamp(tree[i].Timestamp).err

\* positions in the call history of the calls of an operation
PositionsOf(op) == {i \in 1..Len(calls) : calls[i].op = op}

\* number of delay steps taken right after the call at a position
DelaysAfter(i) == Occurrences(sleeps, i)

\* C22: two successive GetChannelHistory calls have exactly one delay step
\* between them, whatever the earlier page held, and no delay step follows
\* the page that ends the pagination.
C22_PageDelay ==
    \A i \in PositionsOf("GetChannelHistory") :
        /\ i + 1 \in PositionsOf("GetChannelHistory") => DelaysAfter(i) = 1
        /\ calls[i].err \/ calls[i].next = EmptyStr => DelaysAfter(i) = 0
        /\ DelaysAfter(i) <= 1

\* C22: a finished run of two pages whose first page held messages that the
\* date range removed, all of them
C22_Witness ==
    /\ pc = "done"
    /\ Len(HistoryCalls) = 2
    /\ HistoryCalls[1].ret # <<>>
    /\ \A i \in 1..Len(HistoryCalls[1].ret) : ~InDateRange(HistoryCalls[1].ret[i])
    /\ sleeps # <<>>

\* C23: two successive GetThreadReplies calls have a delay step between
\* them, whether the earlier call returned replies or an error.
C23_ThreadDelay ==
    \A i \in PositionsOf("GetThreadReplies") :
        i + 1 \in PositionsOf("GetThreadReplies") => DelaysAfter(i) >= 1

\* every remote call of the run has succeeded and the channel was found
RemoteCallsSucceeded ==
    /\ calls # <<>>
    /\ \A i \in 1..Len(calls) : ~IsFatalCall(calls[i])

\* the paths at which a file exists
WrittenPaths == {f.path : f \in files}

\* C25: with Compression "zip" no file is ever written, at the requested
\* path, at the path with ".zip" appended or anywhere else; ExportChannel
\* never returns success; and once the remote calls have succeeded and the
\* output directory exists it returns the error of the zip writer, "zip
\* compression not yet implemented".
C25_ZipUnsupported ==
    options.Compression = "zip" =>
        /\ WrittenPaths = {}
        /\ result.returned => ~result.Success /\ result.err
        /\ result.returned /\ RemoteCallsSucceeded =>
               /\ result.Error = "Failed to generate output file"
               /\ result.Cause \in {"zip compression not yet implemented",
                                    "failed to create output directory"}

\* C25: a run with Compression "zip" whose remote calls all succeeded and
\* which returned the error of the zip writer
C25_Witness ==
    /\ options.Compression = "zip"
    /\ result.returned /\ ~result.Success
    /\ RemoteCallsSucceeded
    /\ \E i \in 1..Len(calls) : calls[i].op = "GetUsers"
    /\ result.Cause = "zip compression not yet implemented"

\* the last three characters of a path are ".gz"
EndsInGz(path) ==
    /\ Len(path) >= 3
    /\ path[Len(path) - 2] = "." /\ path[Len(path) - 1] = "g" /\ path[Len(path)] = "z"

\* the path the claim names for the options of the run
ExpectedPath ==
    IF options.Compression = "gzip" /\ ~EndsInGz(options.OutputFile)
    THEN options.OutputFile \o <<".", "g", "z">>
    ELSE options.OutputFile

\* C26: with Compression "gzip" the path written to, and returned on
\* success, is the requested path with ".gz" appended iff it does not end
\* in ".gz"; with "none" or the empty compression it is the requested path.
C26_GzipSuffix ==
    options.Compression \in {"gzip", "none", ""} =>
        /\ WrittenPaths \subseteq {ExpectedPath}
        /\ result.Success =>
               result.OutputFile = ExpectedPath /\ ExpectedPath \in WrittenPaths

\* C26: a successful gzip export to a path that already ends in ".gz"
C26_Witness ==
    /\ options.Compression = "gzip"
    /\ EndsInGz(options.OutputFile)
    /\ result.Success
    /\ result.OutputFile = options.OutputFile
    /\ WrittenPaths = {options.OutputFile}

\* runExport has returned one of its validation errors
ValidationErrors == {"invalid date", "invalid format", "invalid compression"}

\* C27: when runExport rejects an invalid date, format name or compression
\* name, no call to the remote has been issued.
C27_ValidationFirst ==
    cmd.error \in ValidationErrors => calls = <<>>

\* C28: a format name other than "json-compact" never fails the export:
\* runExport does not return the format error, and the document that is
\* built is rendered indented.
C28_FormatFallback ==
    flags.format # "json-compact" =>
        /\ cmd.error # "invalid format"
        /\ document.built => document.rendering = "MarshalIndent"

\* runExport has built the options and called ExportChannel
OptionsBuilt == cmd.pc \in {"export", "done"} /\ cmd.error = ""

\* C29: the options given to ExportChannel have IncludeThreads,
\* IncludeFiles and IncludeReactions true unless the switch --no-threads,
\* --no-files or --no-reactions of that option is given, and false when it
\* is: all true without switches, and a negative switch clears its option
\* alone.
C29_SwitchDefaults ==
    OptionsBuilt =>
        /\ options.IncludeThreads = ("no-threads" \notin flags.switches)
        /\ options.IncludeFiles = ("no-files" \notin flags.switches)
        /\ options.IncludeReactions = ("no-reactions" \notin flags.switches)

RECURSIVE ExportNodes(_)
\* the messages of an export document with their replies at every depth
ExportNodes(msgs) ==
    IF msgs = <<>> THEN <<>>
    ELSE <<Head(msgs)>> \o ExportNodes(Head(msgs).Replies) \o ExportNodes(Tail(msgs))

\* C30: a document exported with IncludeFiles false has no file entry on
\* any message or reply, and one exported with IncludeReactions false has
\* no reaction entry.
C30_ExcludedContent ==
    document.built =>
        \A i \in 1..Len(ExportNodes(document.messages)) :
            /\ ~options.IncludeFiles => ExportNodes(document.messages)[i].Files = <<>>
            /\ ~options.IncludeReactions =>
                   ExportNodes(document.messages)[i].Reactions = <<>>

\* the ExportChannel invocations that run on the client of the App
RunningExports == {i \in 1..Len(running) : running[i] = "exportChannel"}

\* C24: at most one ExportChannel invocation runs at any time on the
\* client of the App, whatever the order of key presses and of the
\* messages of the commands.
C24_OneExport == Cardinality(RunningExports) <= 1

\* the command line gives --channel-id and no --channel
OnlyChannelID == flags.channelID # "" /\ "channel" \notin flags.changed

\* C31: a run that gives only --channel-id is accepted: once the command
\* has ended it has returned no error about the channel selection, and it
\* has exported the id that was given without asking for the channel list.
C31_ChannelIDAlone ==
    (OnlyChannelID /\ cmd.pc = "done" /\ ValidFormat(flags.format)
        /\ ValidCompression(flags.compress)) =>
        /\ cmd.error = ""
        /\ options.ChannelID = flags.channelID
        /\ calls = <<>>

\* C32: in both list components the cursor is never negative, and it is
\* below the length of the list whenever the list is not empty.
C32_CursorInRange ==
    /\ list.cursor >= 0
    /\ list.items # <<>> => list.cursor < Len(list.items)

\* C38: in both list components, when the viewport is positive and the
\* list is not empty, the row of the cursor is inside the visible window.
C38_CursorVisible ==
    (list.viewport > 0 /\ list.items # <<>>) =>
        /\ list.scrollTop >= 0
        /\ list.scrollTop <= list.cursor
        /\ list.cursor < list.scrollTop + list.viewport

\* C39: the command returned for "enter" never indexes outside the
\* channel list, and the channel of its channelSelectedMsg is the one
\* that was under the cursor when the key was pressed.
C39_SelectedUnderCursor ==
    /\ ~selected.panic
    /\ selected.sent => selected.channel = selected.pressed

\* C36: in the error state the key "r" retries: it starts a load again
\* (as long as the number of running commands allows one more).
C36_RetryFromError ==
    (app.state = "StateError" /\ Len(running) < MaxRunning) => ENABLED PressRefresh

\* C37: whenever the App is in the message view or is exporting, a
\* channel is selected (selectedChannel is not nil).
C37_SelectedInView ==
    app.state \in {"StateMessageView", "StateExporting"} => app.selectedChannel

\* fetchAllMessages is in its loop
Paginating == pc \in {"message_fetch", "page_sleep"}

\* the k-th fetched page held messages and the date range dropped them all
OutOfRangePage(k) ==
    /\ HistoryCalls[k].ret # <<>>
    /\ \A i \in 1..Len(HistoryCalls[k].ret) : ~InDateRange(HistoryCalls[k].ret[i])

\* C33: the page requests do not depend on the date range.  The cursor of
\* the request to come is the one the last answer returned (the empty one
\* before the first request), and the run leaves the loop only after an
\* answer that failed or returned the empty cursor: the dates and what
\* they leave of a page decide neither the cursors nor the number of the
\* requests.
C33_RequestsIgnoreRange ==
    LET h == HistoryCalls
    IN  /\ Paginating =>
               cursor = IF h = <<>> THEN EmptyStr ELSE h[Len(h)].next
        /\ (~Paginating /\ h # <<>>) =>
               h[Len(h)].err \/ h[Len(h)].next = EmptyStr

\* C33: under a date range, a page whose messages were all dropped was
\* followed by the request of the next page
C33_Witness ==
    /\ ~(options.DateFrom.nil /\ options.DateTo.nil)
    /\ \E k \in 1..(Len(HistoryCalls) - 1) : OutOfRangePage(k)

\* the last answer of the history offers a further page
MoreOffered ==
    /\ HistoryCalls # <<>>
    /\ ~HistoryCalls[Len(HistoryCalls)].err
    /\ HistoryCalls[Len(HistoryCalls)].next # EmptyStr

\* C34: with a history that ends after finitely many pages, every run
\* returns; it returns either Success true in stage "complete" or an
\* error with Success false, and nothing else; and as long as the last
\* answer of the history carries a cursor, with or without messages, the
\* run has not returned and is in the message_fetch stage.
C34_Terminates ==
    /\ <>(result.returned)
    /\ [](result.returned =>
             /\ pc = "done"
             /\ \/ result.Success /\ ~result.err /\ progress.Stage = "complete"
                \/ ~result.Success /\ result.err /\ result.Error # ""
                   /\ progress.Stage # "complete")
    /\ [](MoreOffered =>
             /\ ~result.returned
             /\ Paginating
             /\ progress.Stage = "message_fetch")

\* C34: a run has returned with success after a page without messages
\* that carried a cursor
C34_Witness ==
    /\ result.returned /\ result.Success
    /\ \E k \in 1..(Len(HistoryCalls) - 1) : HistoryCalls[k].ret = <<>>

\* a message without its reply list
WithoutThread(msg) == [msg EXCEPT !.Thread = <<>>]

\* the top-level list has been returned by fetchAllMessages
ListFetched == pc \in {"thread_fetch", "thread_sleep", "user_fetch", "file_generation", "done"}

\* C35: once the top-level list is fetched, no step changes the number,
\* the order or any field other than the reply list of its messages; a
\* reply list changes only in the thread stage, only for the qualifying
\* message whose GetThreadReplies call has just succeeded; the steps of
\* user resolution, processing and file generation leave the list as it is.
C35_OnlyThreadsChange ==
    [][ListFetched =>
          /\ Len(messages') = Len(messages)
          /\ \A k \in 1..Len(messages) :
                 /\ WithoutThread(messages'[k]) = WithoutThread(messages[k])
                 /\ messages'[k].Thread # messages[k].Thread =>
                        /\ pc = "thread_fetch"
                        /\ k \in QualifyingIdx
                        /\ k = threaded[ti + 1]
                        /\ calls'[Len(calls')].op = "GetThreadReplies"
                        /\ ~calls'[Len(calls')].err
          /\ pc \in {"thread_sleep", "user_fetch", "file_generation", "done"} =>
                 messages' = messages]_vars

\* C35: the thread stage is just over; a message has its replies and
\* the call for a later message failed
C35_Witness ==
    /\ pc = "user_fetch"
    /\ \E n \in 1..Len(ThreadCalls) :
           /\ ThreadCalls[n].err /\ messages[NthQualifying(n)].Thread = <<>>
           /\ \E m \in 1..(n - 1) : messages[NthQualifying(m)].Thread # <<>>

RECURSIVE SumOver(_, _)
\* the sum of the values a map of counters holds under the keys
SumOver(m, keys) ==
    IF keys = {} THEN 0
    ELSE LET k == CHOOSE x \in keys : TRUE
         IN  m[k] + SumOver(m, keys \ {k})

\* the number of nodes with a non-empty author id
AuthoredCount(nodes) == Cardinality({i \in 1..Len(nodes) : nodes[i].User # EmptyStr})

\* MessagesByUser of the last run agrees with the user map and the nodes
MessagesByUserOf(nodes) ==
    runs # <<>> =>
        LET byUser == LastRun.stats.MessagesByUser
        IN  /\ DOMAIN byUser = DOMAIN users.users
            /\ LastRun.stats.TotalUsers = Cardinality(DOMAIN byUser)
            /\ SumOver(byUser, DOMAIN byUser) = AuthoredCount(nodes)
            /\ AuthoredCount(nodes) <= LastRun.stats.TotalMessages

\* C40: the keys of MessagesByUser are the keys of the user map, so
\* TotalUsers is the number of keys of MessagesByUser; the values of
\* MessagesByUser add up to the number of messages and replies with a
\* non-empty author id, which is at most TotalMessages.
C40_MessagesByUserKeys == MessagesByUserOf(AllNodes)

\* C40: statistics of a tree with a message without author, an author
\* of two nodes and a reply author the directory does not list
C40_Witness ==
    /\ runs # <<>>
    /\ AuthoredCount(AllNodes) < LastRun.stats.TotalMessages
    /\ \E id \in DOMAIN LastRun.stats.MessagesByUser :
           LastRun.stats.MessagesByUser[id] >= 2
    /\ \E id \in DOMAIN users.users : users.users[id].Deleted

====
